---- MODULE Spec2Model ----
(***************************************************************************)
(* A model of the naia client: the EventManager (reliable / unreliable     *)
(* event queues with per-packet bookkeeping), the ServerConnection's       *)
(* packet builder and the NaiaClient handshake / receive loop.             *)
(***************************************************************************)
EXTENDS Integers, Sequences, FiniteSets, TLC

\* ------------------------------------------------------------------ bounds
\* Number of queue_outgoing_event calls in a run.
MaxEvents == 2
\* Number of distinct packet indices (stands for the 2^16 values of a u16).
IndexSpace == 2
\* Longest incoming event queue.
MaxIncoming == 1
\* Packets (or their acks) the channel may lose in a run.
MaxLoss == 1
\* The longest queue of incoming events when event blocks are decoded.
MaxQueued == 3

\* The writer's byte budget for one packet, and the bytes of a ping block.
MtuBudget == 3
PingSize == 1

\* Option<T>: None, Some(x)
None == <<>>
Some(x) == <<x>>
IsSome(opt) == opt # <<>>
Unwrap(opt) == opt[1]

PacketIndices == 0 .. (IndexSpace - 1)

\* An outgoing event type: Event::is_guaranteed() and the size of its
\* encoded record (naia_id, length byte, payload).  The last one is larger
\* than a whole packet.
EventKinds ==
    { [guaranteed |-> FALSE, size |-> 1],
      [guaranteed |-> TRUE,  size |-> 2],
      [guaranteed |-> TRUE,  size |-> MtuBudget + 1] }

\* Rc<Box<dyn Event>>: one allocation per queue_outgoing_event call.
NewEvent(id, kind) ==
    [id |-> id, guaranteed |-> kind.guaranteed, size |-> kind.size]

\* Events the server sends: the naia_id of their type and the bytes their
\* write() produces.  naia_id 9 is a type this client's manifest lacks.
KnownNaiaIds == {1}
IncomingRecords == { [naia_id |-> 1, payload |-> <<7>>],
                     [naia_id |-> 1, payload |-> <<8, 7>>],
                     [naia_id |-> 9, payload |-> <<0, 1>>] }

\* The element of a singleton.  An intermediate result x of value e is
\* bound as The({ f(x) : x \in {e} }), which evaluates e once.
The(S) == CHOOSE x \in S : TRUE

\* The digest the server computes for a timestamp, MAC(secret, T, address):
\* DigestLength bytes.
DigestLength == 32
Digest(timestamp) == [i \in 1 .. DigestLength |-> timestamp]

\* ------------------------------------------------------- HashMap helpers
MapRemove(map, key) == [k \in (DOMAIN map) \ {key} |-> map[k]]

MapInsert(map, key, value) ==
    [k \in (DOMAIN map) \cup {key} |-> IF k = key THEN value ELSE map[k]]

\* Vec::pop: removes the last element; nothing on an empty vector.
VecPop(list) == IF list = <<>> THEN list ELSE SubSeq(list, 1, Len(list) - 1)

\* ----------------------------------------------------------- EventManager
EventManager_new ==
    [queued_outgoing_events |-> <<>>,
     queued_incoming_events |-> <<>>,
     sent_events            |-> <<>>]

\* notify_packet_delivered that re-queues the bucket before removing it.
notify_delivered_requeues(em, packet_index) ==
    IF packet_index \in DOMAIN em.sent_events
    THEN [em EXCEPT
            !.queued_outgoing_events = @ \o em.sent_events[packet_index],
            !.sent_events = MapRemove(@, packet_index)]
    ELSE em

notify_packet_delivered(em, packet_index) ==
    [em EXCEPT !.sent_events = MapRemove(@, packet_index)]

\* notify_packet_dropped through the map's entry API: an index without a
\* bucket gets an empty one.
notify_dropped_inserts_bucket(em, packet_index) ==
    IF packet_index \in DOMAIN em.sent_events
    THEN [em EXCEPT
            !.queued_outgoing_events = @ \o em.sent_events[packet_index],
            !.sent_events = MapRemove(@, packet_index)]
    ELSE [em EXCEPT !.sent_events = MapInsert(@, packet_index, <<>>)]

\* notify_packet_dropped without the removal of the bucket.
notify_dropped_keeps_bucket(em, packet_index) ==
    IF packet_index \in DOMAIN em.sent_events
    THEN [em EXCEPT
            !.queued_outgoing_events = @ \o em.sent_events[packet_index]]
    ELSE em

\* notify_packet_dropped that puts the dropped events at the head of the
\* queue (push_front for push_back).
notify_dropped_pushes_front(em, packet_index) ==
    IF packet_index \in DOMAIN em.sent_events
    THEN [em EXCEPT
            !.queued_outgoing_events = em.sent_events[packet_index] \o @,
            !.sent_events = MapRemove(@, packet_index)]
    ELSE em

notify_packet_dropped(em, packet_index) ==
    IF packet_index \in DOMAIN em.sent_events
    THEN [em EXCEPT
            !.queued_outgoing_events = @ \o em.sent_events[packet_index],
            !.sent_events = MapRemove(@, packet_index)]
    ELSE em

has_outgoing_events(em) == Len(em.queued_outgoing_events) # 0

\* pop_outgoing_event without the is_guaranteed test: every popped event is
\* put in the transmission record.
pop_records_every_event(em, packet_index) ==
    IF em.queued_outgoing_events = <<>>
    THEN [em |-> em, event |-> None]
    ELSE LET event == Head(em.queued_outgoing_events)
             sent1 == IF packet_index \notin DOMAIN em.sent_events
                      THEN MapInsert(em.sent_events, packet_index, <<>>)
                      ELSE em.sent_events
         IN  [em |-> [em EXCEPT
                        !.queued_outgoing_events = Tail(@),
                        !.sent_events =
                            [sent1 EXCEPT ![packet_index] = Append(@, event)]],
              event |-> Some(event)]

\* pop_outgoing_event with the is_guaranteed test inverted.
pop_records_unguaranteed(em, packet_index) ==
    LET r == pop_records_every_event(em, packet_index)
    IN  IF IsSome(r.event) /\ Unwrap(r.event).guaranteed
        THEN [em |-> [em EXCEPT !.queued_outgoing_events = Tail(@)],
              event |-> r.event]
        ELSE r

\* Returns the manager after the call and the Option of the popped event.
pop_outgoing_event(em, packet_index) ==
    IF em.queued_outgoing_events = <<>>
    THEN [em |-> em, event |-> None]
    ELSE LET event == Head(em.queued_outgoing_events)
             em1   == [em EXCEPT !.queued_outgoing_events = Tail(@)]
             sent1 == IF packet_index \notin DOMAIN em1.sent_events
                      THEN MapInsert(em1.sent_events, packet_index, <<>>)
                      ELSE em1.sent_events
             sent2 == [sent1 EXCEPT ![packet_index] = Append(@, event)]
         IN  IF event.guaranteed
             THEN [em |-> [em1 EXCEPT !.sent_events = sent2],
                   event |-> Some(event)]
             ELSE [em |-> em1, event |-> Some(event)]

\* unpop_outgoing_event that leaves the emptied bucket in the map.
unpop_keeps_empty_bucket(em, packet_index, event) ==
    LET sent1 ==
          IF event.guaranteed /\ packet_index \in DOMAIN em.sent_events
          THEN [em.sent_events EXCEPT ![packet_index] = VecPop(@)]
          ELSE em.sent_events
    IN  [em EXCEPT !.sent_events = sent1,
                   !.queued_outgoing_events = <<event>> \o @]

\* unpop_outgoing_event that forgets the transmission record.
unpop_leaves_record(em, packet_index, event) ==
    [em EXCEPT !.queued_outgoing_events = <<event>> \o @]

unpop_outgoing_event(em, packet_index, event) ==
    LET sent1 ==
          IF event.guaranteed /\ packet_index \in DOMAIN em.sent_events
          THEN LET list == VecPop(em.sent_events[packet_index])
               IN  IF Len(list) = 0
                   THEN MapRemove(em.sent_events, packet_index)
                   ELSE [em.sent_events EXCEPT ![packet_index] = list]
          ELSE em.sent_events
    IN  [em EXCEPT !.sent_events = sent1,
                   !.queued_outgoing_events = <<event>> \o @]

queue_outgoing_event(em, event) ==
    [em EXCEPT !.queued_outgoing_events = Append(@, event)]

has_incoming_events(em) == Len(em.queued_incoming_events) # 0

\* pop_back in place of pop_front.
pop_incoming_newest(em) ==
    IF em.queued_incoming_events = <<>>
    THEN [em |-> em, event |-> None]
    ELSE [em |-> [em EXCEPT !.queued_incoming_events = VecPop(@)],
          event |-> Some(em.queued_incoming_events[
                             Len(em.queued_incoming_events)])]

pop_incoming_event(em) ==
    IF em.queued_incoming_events = <<>>
    THEN [em |-> em, event |-> None]
    ELSE [em |-> [em EXCEPT !.queued_incoming_events = Tail(@)],
          event |-> Some(Head(em.queued_incoming_events))]

\* Manifest::create_event: None for a naia_id the manifest does not know.
create_event(naia_id, payload) ==
    IF naia_id \in KnownNaiaIds
    THEN Some([naia_id |-> naia_id, payload |-> payload])
    ELSE None

RECURSIVE process_records(_, _, _)
RECURSIVE skip_without_advancing(_, _, _)

\* PacketReader: the buffer of a packet body and the cursor into it.
PacketReader_new(buffer) == [buffer |-> buffer, position |-> 0]

has_more(reader) == reader.position < Len(reader.buffer)

\* cursor.read_u8(): the byte under the cursor; an Err at the end of the
\* buffer.
read_u8(reader) ==
    IF reader.position + 1 <= Len(reader.buffer)
    THEN [ok |-> TRUE, value |-> reader.buffer[reader.position + 1],
          reader |-> [reader EXCEPT !.position = @ + 1]]
    ELSE [ok |-> FALSE, value |-> 0, reader |-> reader]

\* cursor.read_u16::<BigEndian>()
read_u16(reader) ==
    IF reader.position + 2 <= Len(reader.buffer)
    THEN [ok |-> TRUE,
          value |-> reader.buffer[reader.position + 1] * 256
                      + reader.buffer[reader.position + 2],
          reader |-> [reader EXCEPT !.position = @ + 2]]
    ELSE [ok |-> FALSE, value |-> 0, reader |-> reader]

\* EventManager::write_data: naia_id (u16, big endian), the payload length
\* as one byte, the payload.
write_data(event) ==
    <<event.naia_id \div 256, event.naia_id % 256, Len(event.payload) % 256>>
        \o event.payload

\* The loop body with the cursor left where it is when the manifest does
\* not know the naia_id.
skip_without_advancing(queue, reader, remaining) ==
    IF remaining = 0
    THEN [queue |-> queue, reader |-> reader, ok |-> TRUE]
    ELSE The({
           IF ~naia_id.ok
           THEN [queue |-> queue, reader |-> reader, ok |-> FALSE]
           ELSE The({
                  IF ~payload_length.ok
                  THEN [queue |-> queue, reader |-> reader, ok |-> FALSE]
                  ELSE LET payload_start_position ==
                               payload_length.reader.position
                           payload_end_position ==
                               payload_start_position + payload_length.value
                       IN  IF payload_end_position > Len(reader.buffer)
                           THEN [queue |-> queue, reader |-> reader,
                                 ok |-> FALSE]
                           ELSE The({
                                  IF IsSome(new_event)
                                  THEN skip_without_advancing(
                                         Append(queue, Unwrap(new_event)),
                                         [reader EXCEPT !.position =
                                              payload_end_position],
                                         remaining - 1)
                                  ELSE skip_without_advancing(
                                         queue, payload_length.reader,
                                         remaining - 1) :
                                  new_event \in {create_event(
                                      naia_id.value,
                                      SubSeq(reader.buffer,
                                             payload_start_position + 1,
                                             payload_end_position))} }) :
                  payload_length \in {read_u8(naia_id.reader)} }) :
           naia_id \in {read_u16(reader)} })

\* for _x in 0..event_count: one record is read and the cursor set behind
\* its payload.  read_u16(..).expect(..), read_u8().unwrap() and the slice
\* buffer[start..end] panic when they run past the end of the buffer
\* (ok = FALSE).
process_records(queue, reader, remaining) ==
    IF remaining = 0
    THEN [queue |-> queue, reader |-> reader, ok |-> TRUE]
    ELSE The({
           IF ~naia_id.ok
           THEN [queue |-> queue, reader |-> reader, ok |-> FALSE]
           ELSE The({
                  IF ~payload_length.ok
                  THEN [queue |-> queue, reader |-> reader, ok |-> FALSE]
                  ELSE LET payload_start_position ==
                               payload_length.reader.position
                           payload_end_position ==
                               payload_start_position + payload_length.value
                       IN  IF payload_end_position > Len(reader.buffer)
                           THEN [queue |-> queue, reader |-> reader,
                                 ok |-> FALSE]
                           ELSE The({
                                  process_records(
                                     IF IsSome(new_event)
                                     THEN Append(queue, Unwrap(new_event))
                                     ELSE queue,
                                     [reader EXCEPT !.position =
                                          payload_end_position],
                                     remaining - 1) :
                                  new_event \in {create_event(
                                      naia_id.value,
                                      SubSeq(reader.buffer,
                                             payload_start_position + 1,
                                             payload_end_position))} }) :
                  payload_length \in {read_u8(naia_id.reader)} }) :
           naia_id \in {read_u16(reader)} })

\* process_data: the count byte (read_u8().unwrap()), then the records.
process_data(em, reader) ==
    The({ IF ~event_count.ok
          THEN [em |-> em, reader |-> reader, ok |-> FALSE]
          ELSE The({ [em |-> [em EXCEPT !.queued_incoming_events = r.queue],
                      reader |-> r.reader, ok |-> r.ok] :
                     r \in {process_records(em.queued_incoming_events,
                                            event_count.reader,
                                            event_count.value)} }) :
          event_count \in {read_u8(reader)} })

\* ----------------------------------------------------------- PacketWriter
PacketWriter_new == [bytes |-> 0, ping |-> FALSE, events |-> <<>>]

has_bytes(writer) == writer.bytes > 0

\* Appends the event's record unless that would exceed the packet budget.
write_event(writer, event) ==
    IF writer.bytes + event.size > MtuBudget
    THEN [writer |-> writer, ok |-> FALSE]
    ELSE [writer |-> [writer EXCEPT !.bytes = @ + event.size,
                                    !.events = Append(@, event)],
          ok |-> TRUE]

\* PingManager::write_data: the ping block.
ping_write_data(writer) ==
    [writer EXCEPT !.bytes = @ + PingSize, !.ping = TRUE]

\* ------------------------------------------------------- ServerConnection
\* Connection (event manager, next packet index, timers), entity manager
\* and ping manager of one connection.
ServerConnection_new ==
    [event_manager       |-> EventManager_new,
     next_packet_index   |-> 0,
     ping_should_write   |-> TRUE,
     heartbeat_ringing   |-> FALSE,
     drop_ringing        |-> FALSE,
     entity_messages     |-> <<>>]

get_next_packet_index(conn) == conn.next_packet_index

\* Writes the header for the next packet index and advances the index
\* (u16 wrapping add, here modulo IndexSpace).
process_outgoing_header(conn) ==
    [conn EXCEPT !.next_packet_index = (@ + 1) % IndexSpace]

mark_sent(conn) == [conn EXCEPT !.heartbeat_ringing = FALSE]

mark_heard(conn) == [conn EXCEPT !.drop_ringing = FALSE]

should_drop(conn) == conn.drop_ringing

\* Rings after heartbeat_interval of send silence, with nothing else to send.
should_send_heartbeat(conn) ==
    /\ conn.heartbeat_ringing
    /\ ~has_outgoing_events(conn.event_manager)
    /\ ~conn.ping_should_write

queue_event(conn, event) ==
    [conn EXCEPT !.event_manager = queue_outgoing_event(@, event)]

get_incoming_event(conn) ==
    LET r == pop_incoming_event(conn.event_manager)
    IN  [conn |-> [conn EXCEPT !.event_manager = r.em], event |-> r.event]

\* The while-let loop of get_outgoing_packet: pop, write, un-pop and stop
\* at the first event that does not fit.
RECURSIVE write_events(_, _, _)
RECURSIVE write_events_drops_unfit(_, _, _)

\* The loop without the un-pop: the event that does not fit is left out of
\* the queue.
write_events_drops_unfit(em, writer, packet_index) ==
    The({ IF ~IsSome(popped.event)
          THEN [em |-> popped.em, writer |-> writer]
          ELSE The({ IF ~w.ok
                     THEN [em |-> popped.em, writer |-> writer]
                     ELSE write_events_drops_unfit(popped.em, w.writer,
                                                   packet_index) :
                     w \in {write_event(writer, Unwrap(popped.event))} }) :
          popped \in {pop_outgoing_event(em, packet_index)} })

write_events(em, writer, packet_index) ==
    The({ IF ~IsSome(popped.event)
          THEN [em |-> popped.em, writer |-> writer]
          ELSE The({ IF ~w.ok
                     THEN [em |-> unpop_outgoing_event(popped.em, packet_index,
                                                       Unwrap(popped.event)),
                           writer |-> writer]
                     ELSE write_events(popped.em, w.writer, packet_index) :
                     w \in {write_event(writer, Unwrap(popped.event))} }) :
          popped \in {pop_outgoing_event(em, packet_index)} })

\* Returns the connection after the call and the Option of the packet built:
\* its index, whether it carries a ping, and the events written, in order.
get_outgoing_packet(conn) ==
    IF has_outgoing_events(conn.event_manager) \/ conn.ping_should_write
    THEN LET next_packet_index == get_next_packet_index(conn)
             writer1 == IF conn.ping_should_write
                        THEN ping_write_data(PacketWriter_new)
                        ELSE PacketWriter_new
         IN  The({ IF has_bytes(loop.writer)
                   THEN [conn   |-> process_outgoing_header(
                                      [conn EXCEPT !.ping_should_write = FALSE,
                                                   !.event_manager = loop.em]),
                         packet |-> Some([packet_type |-> "Data",
                                          index  |-> next_packet_index,
                                          ping   |-> loop.writer.ping,
                                          events |-> loop.writer.events])]
                   ELSE [conn |-> [conn EXCEPT !.ping_should_write = FALSE,
                                               !.event_manager = loop.em],
                         packet |-> None] :
                   loop \in {write_events(conn.event_manager, writer1,
                                          next_packet_index)} })
    ELSE [conn |-> conn, packet |-> None]

\* ------------------------------------------------------------------ state
VARIABLES
    client,         \* the NaiaClient: handshake state and Option<ServerConnection>
    socket,         \* datagrams waiting in the client socket, oldest first
    panicked,       \* the process aborted (unwrap / expect failed)
    next_event_id,  \* allocation counter of outgoing events
    wire,           \* packets sent and not yet notified: index -> packet
    peer_incoming,  \* ids of the events that reached the peer's incoming queue
    losses,         \* packets (or acks) the channel has lost so far
    written,        \* ids of the events written into some packet sent
    acked,          \* ids of the events of the packets notified delivered
    last_call,      \* the operation performed by the last step
    last_pop,       \* the last pop_outgoing_event, when it is the last call
    rx_log,         \* the datagrams the last receive() took, with the client
                    \* before and after each
    result,         \* the ClientEvent the last receive() returned
    outbox,         \* the packets the last receive() handed to the sender
    accepted,       \* the ServerChallengeResponse accepted in this handshake
    set_tick_arg,   \* the argument of the set_tick call made in this handshake
    after_drop,     \* the receive() before the last one returned Disconnection
    entity_manager, \* the live entities and pawns in scope, by key
    interpolation_manager,  \* the InterpolationManager
    interp_call     \* the InterpolationManager call made by the last step

\* What receive() and the handshake leave behind for an observer.
observed == <<rx_log, result, outbox, accepted, set_tick_arg, after_drop>>

\* The interpolation layer, and everything else.
interp_vars == <<entity_manager, interpolation_manager, interp_call>>
client_vars == <<client, socket, panicked, next_event_id, wire, peer_incoming,
                 losses, written, acked, last_call, last_pop, observed>>

vars == <<client_vars, interp_vars>>

\* rx_log, result and outbox describe the receive() call just made: any
\* other step clears them.
Forget ==
    /\ rx_log' = <<>>
    /\ result' = "None"
    /\ outbox' = <<>>
    /\ after_drop' = FALSE
    /\ UNCHANGED <<accepted, set_tick_arg, interp_vars>>

Conn == Unwrap(client.server_connection)
EM == Conn.event_manager

WithConn(conn) == [client EXCEPT !.server_connection = Some(conn)]
WithEM(em) == WithConn([Conn EXCEPT !.event_manager = em])

\* What the last step did: the operation, its packet index, the event it
\* returned or was given, the packet it built, the bucket it found.
Call(op, index, event, packet, bucket) ==
    [op |-> op, index |-> index, event |-> event, packet |-> packet,
     bucket |-> bucket]

NoIndex == IndexSpace

EventIds(events) == { events[i].id : i \in DOMAIN events }

\* self.sent_events.get(&packet_index)
Bucket(em, packet_index) ==
    IF packet_index \in DOMAIN em.sent_events
    THEN Some(em.sent_events[packet_index])
    ELSE None

\* Event blocks as a sender makes them: a count byte and records.
EventBlocks ==
    { [count |-> c, records |-> r] :
        c \in 0 .. 3,
        r \in {<<>>} \cup { <<x>> : x \in IncomingRecords }
                     \cup { <<x, y>> : x \in IncomingRecords, y \in IncomingRecords }
                     \cup { <<x, u, y>> :
                              x \in IncomingRecords, y \in IncomingRecords,
                              u \in { rec \in IncomingRecords :
                                        rec.naia_id \notin KnownNaiaIds } } }

WellFormedBlocks == { b \in EventBlocks : b.count = Len(b.records) }
TruncatedBlocks == { b \in EventBlocks : b.count = Len(b.records) + 1 }

\* The bytes of the records, each as write_data lays it out.
RECURSIVE EncodeRecords(_)
EncodeRecords(records) ==
    IF records = <<>> THEN <<>>
    ELSE write_data(Head(records)) \o EncodeRecords(Tail(records))

\* The bytes of an event block.
EncodeBlock(block) == <<block.count>> \o EncodeRecords(block.records)

\* The buffers process_data is given: well-formed blocks, blocks followed
\* by more bytes, blocks whose count runs past the end, and well-formed
\* blocks cut short by one byte.
EventBuffers ==
    { EncodeBlock(b) : b \in EventBlocks }
    \cup { SubSeq(EncodeBlock(b), 1, Len(EncodeBlock(b)) - 1) :
             b \in WellFormedBlocks }

\* A client whose handshake has completed, with a fresh connection.
ConnectedClient ==
    [connection_state         |-> "Connected",
     server_connection        |-> Some(ServerConnection_new),
     pre_connection_timestamp |-> Some(1),
     pre_connection_digest    |-> Some(Digest(1)),
     handshake_timer_ringing  |-> FALSE,
     tick                     |-> 0]

\* --------------------------------------------------- InterpolationManager
\* Keys of entities in scope, the values an entity can hold, the instants
\* of the clock.
MaxKeys == 1
LocalEntityKeys == 1 .. MaxKeys
EntityValues == {"old", "new"}
Instants == {1, 2}

\* ClientEntityManager: the live entities and the pawns, by key.
ClientEntityManager_new == [entities |-> <<>>, pawns |-> <<>>]

get_local_entity(em, key) ==
    IF key \in DOMAIN em.entities THEN Some(em.entities[key]) ELSE None

get_pawn(em, key) ==
    IF key \in DOMAIN em.pawns THEN Some(em.pawns[key]) ELSE None

InterpolationManager_new == [entity_store |-> <<>>, pawn_store |-> <<>>]

\* get_typed_copy of the live entity, stored with Instant::now().
create_interpolation(im, em, key, now) ==
    IF IsSome(get_local_entity(em, key))
    THEN [im EXCEPT !.entity_store =
            MapInsert(@, key, [updated |-> now,
                               entity  |-> Unwrap(get_local_entity(em, key))])]
    ELSE im

delete_interpolation(im, key) ==
    [im EXCEPT !.entity_store = MapRemove(@, key)]

\* set_smooth has an empty body: the stored entity is returned as it is.
get_interpolation(im, em, now, key) ==
    IF IsSome(get_local_entity(em, key)) /\ key \in DOMAIN im.entity_store
    THEN [im |-> im, returned |-> Some(im.entity_store[key].entity)]
    ELSE [im |-> im, returned |-> None]

\* pub fn sync_interpolation(&mut self, key, now) {}
sync_interpolation(im, key, now) == im

create_pawn_interpolation(im, em, key, now) ==
    IF IsSome(get_pawn(em, key))
    THEN [im EXCEPT !.pawn_store =
            MapInsert(@, key, [updated |-> now,
                               entity  |-> Unwrap(get_pawn(em, key))])]
    ELSE im

delete_pawn_interpolation(im, key) ==
    [im EXCEPT !.pawn_store = MapRemove(@, key)]

get_pawn_interpolation(im, em, now, key) ==
    IF IsSome(get_pawn(em, key)) /\ key \in DOMAIN im.pawn_store
    THEN [im |-> im, returned |-> Some(im.pawn_store[key].entity)]
    ELSE [im |-> im, returned |-> None]

\* pub fn sync_pawn_interpolation(&mut self, key, now) {}
sync_pawn_interpolation(im, key, now) == im

\* ------------------------------------------- the EventManager's operations
InitEM ==
    /\ client = ConnectedClient
    /\ socket = <<>>
    /\ panicked = FALSE
    /\ next_event_id = 1
    /\ wire = <<>>
    /\ peer_incoming = {}
    /\ losses = 0
    /\ written = {}
    /\ acked = {}
    /\ last_call = Call("new", NoIndex, None, None, None)
    /\ last_pop = None
    /\ rx_log = <<>>
    /\ result = "None"
    /\ outbox = <<>>
    /\ accepted = None
    /\ set_tick_arg = None
    /\ after_drop = FALSE
    /\ entity_manager = ClientEntityManager_new
    /\ interpolation_manager = InterpolationManager_new
    /\ interp_call = [op |-> "new", key |-> 0, now |-> 0, returned |-> None]

QueueOutgoingEvent(kind) ==
    /\ ~panicked
    /\ next_event_id <= MaxEvents
    /\ client' = WithEM(queue_outgoing_event(EM, NewEvent(next_event_id, kind)))
    /\ next_event_id' = next_event_id + 1
    /\ last_call' = Call("queue_outgoing_event", NoIndex, None, None, None)
    /\ last_pop' = None
    /\ Forget /\ UNCHANGED <<socket, panicked, wire, peer_incoming, losses, written, acked>>

PopOutgoingEvent(packet_index) ==
    /\ ~panicked
    /\ LET r == pop_outgoing_event(EM, packet_index)
       IN  /\ client' = WithEM(r.em)
           /\ last_call' = Call("pop_outgoing_event", packet_index, r.event,
                                None, None)
           /\ last_pop' = IF IsSome(r.event)
                          THEN Some([index  |-> packet_index,
                                     event  |-> Unwrap(r.event),
                                     before |-> EM])
                          ELSE None
    /\ Forget /\ UNCHANGED <<socket, panicked, next_event_id, wire, peer_incoming, losses,
                   written, acked>>

\* unpop_outgoing_event is called with the event the last pop returned and
\* the packet index of that pop (server_connection.rs:39-43).
UnpopOutgoingEvent ==
    /\ ~panicked
    /\ IsSome(last_pop)
    /\ LET lp == Unwrap(last_pop)
       IN  /\ client' = WithEM(unpop_outgoing_event(EM, lp.index, lp.event))
           /\ last_call' = Call("unpop_outgoing_event", lp.index,
                                Some(lp.event), None, None)
    /\ last_pop' = None
    /\ Forget /\ UNCHANGED <<socket, panicked, next_event_id, wire, peer_incoming, losses,
                   written, acked>>

NotifyPacketDelivered(packet_index) ==
    /\ ~panicked
    /\ client' = WithEM(notify_packet_delivered(EM, packet_index))
    /\ last_call' = Call("notify_packet_delivered", packet_index, None, None,
                         Bucket(EM, packet_index))
    /\ last_pop' = None
    /\ Forget /\ UNCHANGED <<socket, panicked, next_event_id, wire, peer_incoming, losses,
                   written, acked>>

NotifyPacketDropped(packet_index) ==
    /\ ~panicked
    /\ client' = WithEM(notify_packet_dropped(EM, packet_index))
    /\ last_call' = Call("notify_packet_dropped", packet_index, None, None,
                         Bucket(EM, packet_index))
    /\ last_pop' = None
    /\ Forget /\ UNCHANGED <<socket, panicked, next_event_id, wire, peer_incoming, losses,
                   written, acked>>

ProcessData(buffer) ==
    /\ ~panicked
    /\ \E r \in {process_data(EM, PacketReader_new(buffer))} :
          /\ Len(r.em.queued_incoming_events) <= MaxQueued
          /\ client' = IF r.ok THEN WithEM(r.em) ELSE client
          /\ panicked' = ~r.ok
    /\ last_call' = Call("process_data", NoIndex, None, Some(buffer), None)
    /\ last_pop' = None
    /\ Forget /\ UNCHANGED <<socket, next_event_id, wire, peer_incoming, losses, written, acked>>

PopIncomingEvent ==
    /\ ~panicked
    /\ LET r == pop_incoming_event(EM)
       IN  /\ client' = WithEM(r.em)
           /\ last_call' = Call("pop_incoming_event", NoIndex, r.event, None,
                                None)
    /\ last_pop' = None
    /\ Forget /\ UNCHANGED <<socket, panicked, next_event_id, wire, peer_incoming, losses,
                   written, acked>>

\* The EventManager never reads an event's size: one kind for each value of
\* is_guaranteed is enough here.
SmallKinds == { kind \in EventKinds : kind.size <= MtuBudget }

\* Buffers of at most one record, for the runs about the outgoing side.
SmallBuffers ==
    { EncodeBlock(b) : b \in { x \in EventBlocks : Len(x.records) <= 1 } }

NextEM ==
    \/ \E kind \in SmallKinds : QueueOutgoingEvent(kind)
    \/ \E s \in PacketIndices : PopOutgoingEvent(s)
    \/ UnpopOutgoingEvent
    \/ \E s \in PacketIndices : NotifyPacketDelivered(s)
    \/ \E s \in PacketIndices : NotifyPacketDropped(s)
    \/ \E buffer \in SmallBuffers :
          Len(EM.queued_incoming_events) < MaxIncoming /\ ProcessData(buffer)
    \/ PopIncomingEvent

SpecEM == InitEM /\ [][NextEM]_vars

\* The incoming side of the EventManager alone.
NextIncoming ==
    \/ \E buffer \in EventBuffers : ProcessData(buffer)
    \/ PopIncomingEvent

SpecIncoming == InitEM /\ [][NextIncoming]_vars

\* ---------------------------------------- events encoded and decoded again
\* The longest payload a length byte can describe.
MaxPayloadLength == 255

\* The bytes an event's write() produces: n zero bytes.
Zeros(n) == [i \in 1 .. n |-> 0]

\* Events of a type the manifest knows, as the application queues them:
\* short payloads, a payload of MaxPayloadLength bytes and one a byte longer.
OutgoingRecords ==
    { x \in IncomingRecords : x.naia_id \in KnownNaiaIds }
    \cup { [naia_id |-> 1, payload |-> Zeros(n)] :
             n \in {MaxPayloadLength, MaxPayloadLength + 1} }

\* Blocks of one or two such events.
OutgoingBlocks ==
    { [count |-> 1, records |-> <<x>>] : x \in OutgoingRecords }
    \cup { [count |-> 2, records |-> <<x, y>>] :
             x \in OutgoingRecords, y \in OutgoingRecords }

\* The sender writes each event of a block with write_data; the receiver
\* runs process_data over the bytes.
WriteAndProcess(block) == ProcessData(EncodeBlock(block))

NextRoundTrip ==
    \/ \E block \in OutgoingBlocks : WriteAndProcess(block)
    \/ PopIncomingEvent

SpecRoundTrip == InitEM /\ [][NextRoundTrip]_vars

\* ------------------------------------------ the connection's sending side
\* send_event on a client without a connection making one to queue into.
send_event_makes_connection(c, event) ==
    [c EXCEPT !.server_connection =
        Some(queue_event(IF IsSome(c.server_connection)
                         THEN Unwrap(c.server_connection)
                         ELSE ServerConnection_new, event))]

\* NaiaClient::send_event: queues the event when there is a connection.
send_event(c, event) ==
    IF IsSome(c.server_connection)
    THEN [c EXCEPT !.server_connection =
            Some(queue_event(Unwrap(c.server_connection), event))]
    ELSE c

\* The application calls send_event with a new event.
SendEvent(kind) ==
    /\ ~panicked
    /\ next_event_id <= MaxEvents
    /\ client' = send_event(client, NewEvent(next_event_id, kind))
    /\ next_event_id' = next_event_id + 1
    /\ last_call' = Call("send_event", NoIndex,
                         Some(NewEvent(next_event_id, kind)), None, None)
    /\ last_pop' = None
    /\ Forget /\ UNCHANGED <<socket, panicked, wire, peer_incoming, losses, written, acked>>

\* One turn of the send loop of receive(): get_outgoing_packet, and for a
\* packet, send and mark_sent.  A packet index is taken again only after
\* its earlier packet has been notified.
GetOutgoingPacket ==
    /\ ~panicked
    /\ IsSome(client.server_connection)
    /\ LET r == get_outgoing_packet(Conn)
       IN  /\ IsSome(r.packet) => Conn.next_packet_index \notin DOMAIN wire
           /\ client' = WithConn(IF IsSome(r.packet) THEN mark_sent(r.conn)
                                                    ELSE r.conn)
           /\ wire' = IF IsSome(r.packet)
                      THEN MapInsert(wire, Unwrap(r.packet).index,
                                     Unwrap(r.packet))
                      ELSE wire
           /\ written' = IF IsSome(r.packet)
                         THEN written \cup EventIds(Unwrap(r.packet).events)
                         ELSE written
           /\ last_call' = Call("get_outgoing_packet", Conn.next_packet_index,
                                None, r.packet, None)
    /\ last_pop' = None
    /\ Forget /\ UNCHANGED <<socket, panicked, next_event_id, peer_incoming, losses, acked>>

\* PingManager: the ping interval has elapsed (or the pong came back).
PingDue ==
    /\ ~panicked
    /\ IsSome(client.server_connection)
    /\ ~Conn.ping_should_write
    /\ client' = WithConn([Conn EXCEPT !.ping_should_write = TRUE])
    /\ last_call' = Call("idle", NoIndex, None, None, None)
    /\ last_pop' = None
    /\ Forget /\ UNCHANGED <<socket, panicked, next_event_id, wire, peer_incoming, losses,
                   written, acked>>

\* AckManager: the acks of an incoming header report a sent packet
\* delivered; it is no longer tracked.  The packet had reached the peer,
\* whose process_data enqueued its events.
AckDelivered(packet_index) ==
    /\ ~panicked
    /\ IsSome(client.server_connection)
    /\ packet_index \in DOMAIN wire
    /\ client' = WithEM(notify_packet_delivered(EM, packet_index))
    /\ wire' = MapRemove(wire, packet_index)
    /\ peer_incoming' = peer_incoming \cup EventIds(wire[packet_index].events)
    /\ acked' = acked \cup EventIds(wire[packet_index].events)
    /\ last_call' = Call("notify_packet_delivered", packet_index, None, None,
                         Bucket(EM, packet_index))
    /\ last_pop' = None
    /\ Forget /\ UNCHANGED <<socket, panicked, next_event_id, losses, written>>

\* AckManager: a sent packet is reported dropped: the channel lost it, or it
\* reached the peer and the channel lost its acks.
AckDropped(packet_index, arrived) ==
    /\ ~panicked
    /\ IsSome(client.server_connection)
    /\ packet_index \in DOMAIN wire
    /\ losses < MaxLoss
    /\ losses' = losses + 1
    /\ client' = WithEM(notify_packet_dropped(EM, packet_index))
    /\ wire' = MapRemove(wire, packet_index)
    /\ peer_incoming' = IF arrived
                        THEN peer_incoming
                               \cup EventIds(wire[packet_index].events)
                        ELSE peer_incoming
    /\ last_call' = Call("notify_packet_dropped", packet_index, None, None,
                         Bucket(EM, packet_index))
    /\ last_pop' = None
    /\ Forget /\ UNCHANGED <<socket, panicked, next_event_id, written, acked>>

NextConn ==
    \/ \E kind \in EventKinds : SendEvent(kind)
    \/ GetOutgoingPacket
    \/ PingDue
    \/ \E s \in PacketIndices : AckDelivered(s)
    \/ \E s \in PacketIndices, arrived \in BOOLEAN : AckDropped(s, arrived)

SpecConn == InitEM /\ [][NextConn]_vars

\* The sender keeps calling get_outgoing_packet and every sent packet is
\* eventually notified delivered or dropped.
FairConn ==
    /\ WF_vars(GetOutgoingPacket)
    /\ \A s \in PacketIndices :
          WF_vars(AckDelivered(s) \/ \E arrived \in BOOLEAN : AckDropped(s, arrived))

SpecConnFair == SpecConn /\ FairConn

\* --------------------------------------------------------- the NaiaClient
\* Wrap of the u16 tick, and the longest socket backlog.
TickSpace == 2
MaxSocket == 2

\* NaiaClient::new: no connection, nothing stored, the handshake timer rung
\* by hand.
NaiaClient_new ==
    [connection_state         |-> "AwaitingChallengeResponse",
     server_connection        |-> None,
     pre_connection_timestamp |-> None,
     pre_connection_digest    |-> None,
     handshake_timer_ringing  |-> TRUE,
     tick                     |-> 0]

\* ClientTickManager: update_frame advances the tick when a tick interval
\* has elapsed since the last frame; set_tick snaps it to the server's.
update_frame(tick, elapsed) == IF elapsed THEN (tick + 1) % TickSpace ELSE tick

set_tick(tick, server_tick) == server_tick

\* Values of Timestamp::now() and server ticks on the wire.
Timestamps == {1, 2}
ServerTicks == {TickSpace - 1}

\* What the acks of an incoming header newly report about one packet sent.
Notices ==
    {None} \cup { Some([index |-> s, delivered |-> b]) :
                    s \in PacketIndices, b \in BOOLEAN }

\* The manager blocks of a Data body as a sender makes them: the tag
\* byte (0 Event, 1 Entity, 2 Ping; 5 stands for a tag no manager has)
\* and the manager's bytes.
EncodeEvents(block) == <<0>> \o EncodeBlock(block)

\* count, then (kind, key) for each message: kind 0 Create (with the
\* naia_id of the entity type), 1 Update, 2 Delete.
EncodeEntity(kind) ==
    <<1, 1, kind, 0, 1>> \o (IF kind = 0 THEN <<0, 1>> ELSE <<>>)

\* The body of a Data packet.
Payloads ==
    { EncodeEvents([count |-> 1,
                    records |-> <<[naia_id |-> 1, payload |-> <<7>>]>>]),
      EncodeEvents([count |-> 1, records |-> <<>>]),
      EncodeEntity(0) }

\* The datagrams the socket can hand over, and its error.
Datagrams ==
    { [packet_type |-> "ServerChallengeResponse", notice |-> None,
       server_tick |-> k, timestamp |-> t, digest |-> Digest(t)] :
         k \in ServerTicks, t \in Timestamps }
    \cup { [packet_type |-> "ServerConnectResponse", notice |-> None] }
    \cup { [packet_type |-> "Data", notice |-> None, payload |-> p] :
             p \in Payloads }
    \cup { [packet_type |-> "Heartbeat", notice |-> n] : n \in Notices }
    \cup { [packet_type |-> "Error"] }

\* AckManager::process_incoming: a packet newly reported delivered or
\* dropped is notified to the EventManager and no longer tracked.
process_incoming_header(conn, notice) ==
    IF IsSome(notice)
    THEN [conn EXCEPT
            !.event_manager =
                IF Unwrap(notice).delivered
                THEN notify_packet_delivered(@, Unwrap(notice).index)
                ELSE notify_packet_dropped(@, Unwrap(notice).index)]
    ELSE conn

\* The ClientEntityMessage of an entity message kind.
entity_message(kind) ==
    CASE kind = 0 -> "Create"
      [] kind = 1 -> "Update"
      [] kind = 2 -> "Delete"

\* ClientEntityManager::process_data: count, then for each message its
\* kind, the key, and for a Create the naia_id of the entity type.  A
\* block that runs past the end of the buffer or has an unknown kind is
\* dropped (ok = FALSE, without failure).
RECURSIVE entity_read_messages(_, _, _)
entity_read_messages(messages, reader, remaining) ==
    IF remaining = 0
    THEN [messages |-> messages, reader |-> reader, ok |-> TRUE]
    ELSE The({
           The({
             The({ IF ~kind.ok \/ ~key.ok \/ ~naia_id.ok
                      \/ kind.value \notin {0, 1, 2}
                   THEN [messages |-> messages, reader |-> reader,
                         ok |-> FALSE]
                   ELSE entity_read_messages(
                            Append(messages, entity_message(kind.value)),
                            naia_id.reader, remaining - 1) :
                   naia_id \in {IF kind.ok /\ kind.value = 0
                                THEN read_u16(key.reader)
                                ELSE [ok |-> TRUE, value |-> 0,
                                      reader |-> key.reader]} }) :
             key \in {read_u16(kind.reader)} }) :
           kind \in {read_u8(reader)} })

entity_process_data(messages, reader) ==
    The({ IF ~count.ok
          THEN [messages |-> messages, reader |-> reader, ok |-> FALSE]
          ELSE The({ IF r.ok THEN r
                     ELSE [messages |-> messages, reader |-> reader,
                           ok |-> FALSE] :
                     r \in {entity_read_messages(messages, count.reader,
                                                 count.value)} }) :
          count \in {read_u8(reader)} })

\* PingManager::read_data: the ping block is PingSize bytes.
ping_read_data(reader) ==
    [reader EXCEPT !.position = IF @ + PingSize <= Len(reader.buffer)
                                THEN @ + PingSize
                                ELSE Len(reader.buffer)]

\* while reader.has_more(): the manager tag, then the manager's block.
\* ok = FALSE when process_data panicked.
RECURSIVE read_manager_blocks(_, _)
read_manager_blocks(conn, reader) ==
    IF ~has_more(reader)
    THEN [conn |-> conn, ok |-> TRUE]
    ELSE The({
           CASE manager_type.value = 0 ->
                  The({ IF r.ok
                        THEN read_manager_blocks(
                                 [conn EXCEPT !.event_manager = r.em],
                                 r.reader)
                        ELSE [conn |-> conn, ok |-> FALSE] :
                        r \in {process_data(conn.event_manager,
                                            manager_type.reader)} })
             [] manager_type.value = 1 ->
                  The({ IF r.ok
                        THEN read_manager_blocks(
                                 [conn EXCEPT !.entity_messages = r.messages],
                                 r.reader)
                        ELSE [conn |-> conn, ok |-> TRUE] :
                        r \in {entity_process_data(conn.entity_messages,
                                                   manager_type.reader)} })
             [] manager_type.value = 2 ->
                  read_manager_blocks(conn,
                                      ping_read_data(manager_type.reader))
             [] OTHER ->
                  read_manager_blocks(conn, manager_type.reader) :
           manager_type \in {read_u8(reader)} })

process_incoming_data(conn, data) ==
    read_manager_blocks(conn, PacketReader_new(data))

\* The ClientEvent receive() returns for a ClientEntityMessage.
entity_event(message) ==
    CASE message = "Create" -> "CreateEntity"
      [] message = "Delete" -> "DeleteEntity"
      [] message = "Update" -> "UpdateEntity"

get_incoming_entity_message(conn) ==
    IF conn.entity_messages = <<>>
    THEN [conn |-> conn, message |-> None]
    ELSE [conn |-> [conn EXCEPT !.entity_messages = Tail(@)],
          message |-> Some(Head(conn.entity_messages))]

\* Adds the header, sends, mark_sent.
internal_send_with_connection(conn, packet_type) ==
    [conn   |-> mark_sent(process_outgoing_header(conn)),
     packet |-> Some([packet_type |-> packet_type,
                      index  |-> get_next_packet_index(conn),
                      ping   |-> FALSE,
                      events |-> <<>>])]

\* while let Some(payload) = connection.get_outgoing_packet(..): send,
\* mark_sent.
RECURSIVE send_loop(_, _)
send_loop(conn, sent) ==
    The({ IF IsSome(r.packet)
          THEN The({ send_loop(conn1, sent1) :
                     conn1 \in {mark_sent(r.conn)},
                     sent1 \in {Append(sent, Unwrap(r.packet))} })
          ELSE [conn |-> r.conn, sent |-> sent] :
          r \in {get_outgoing_packet(conn)} })

\* The drop branch with the connection left in place.
disconnect_keeps_connection(c) ==
    [c EXCEPT !.pre_connection_timestamp = None,
              !.pre_connection_digest = None,
              !.connection_state = "AwaitingChallengeResponse"]

\* The drop branch with the stored timestamp left in place.
disconnect_keeps_timestamp(c) ==
    [c EXCEPT !.server_connection = None,
              !.pre_connection_digest = None,
              !.connection_state = "AwaitingChallengeResponse"]

\* should_drop: the connection and what the handshake stored are cleared.
disconnect(c) ==
    [c EXCEPT !.server_connection = None,
              !.pre_connection_timestamp = None,
              !.pre_connection_digest = None,
              !.connection_state = "AwaitingChallengeResponse"]

\* The handshake branch taking a new timestamp for every challenge request.
send_handshake_new_timestamp(c, now) ==
    IF ~c.handshake_timer_ringing
    THEN [client |-> c, sent |-> <<>>]
    ELSE CASE c.connection_state = "AwaitingChallengeResponse" ->
                [client |-> [c EXCEPT
                               !.pre_connection_timestamp = Some(now),
                               !.handshake_timer_ringing = FALSE],
                 sent |-> <<[packet_type |-> "ClientChallengeRequest",
                             timestamp   |-> now]>>]
           [] c.connection_state = "AwaitingConnectResponse" ->
                [client |-> [c EXCEPT !.handshake_timer_ringing = FALSE],
                 sent |-> <<[packet_type |-> "ClientConnectRequest",
                             timestamp   |-> Unwrap(c.pre_connection_timestamp),
                             digest      |-> Unwrap(c.pre_connection_digest)]>>]
           [] OTHER ->
                [client |-> [c EXCEPT !.handshake_timer_ringing = FALSE],
                 sent |-> <<>>]

\* The handshake packet for the current state, when the timer rings.
send_handshake(c, now) ==
    IF ~c.handshake_timer_ringing
    THEN [client |-> c, sent |-> <<>>]
    ELSE CASE c.connection_state = "AwaitingChallengeResponse" ->
                LET my_timestamp == IF IsSome(c.pre_connection_timestamp)
                                    THEN c.pre_connection_timestamp
                                    ELSE Some(now)
                IN  [client |-> [c EXCEPT
                                   !.pre_connection_timestamp = my_timestamp,
                                   !.handshake_timer_ringing = FALSE],
                     sent |-> <<[packet_type |-> "ClientChallengeRequest",
                                 timestamp   |-> Unwrap(my_timestamp)]>>]
           [] c.connection_state = "AwaitingConnectResponse" ->
                [client |-> [c EXCEPT !.handshake_timer_ringing = FALSE],
                 sent |-> <<[packet_type |-> "ClientConnectRequest",
                             timestamp   |-> Unwrap(c.pre_connection_timestamp),
                             digest      |-> Unwrap(c.pre_connection_digest)]>>]
           [] OTHER ->
                [client |-> [c EXCEPT !.handshake_timer_ringing = FALSE],
                 sent |-> <<>>]

\* The part of receive() before the socket is read: the client after it,
\* the packets sent, and the event returned from there, if any.
before_socket(c, now) ==
    IF IsSome(c.server_connection)
    THEN LET connection == Unwrap(c.server_connection)
         IN  IF should_drop(connection)
             THEN [client |-> disconnect(c), sent |-> <<>>,
                   output |-> Some("Disconnection"), event |-> None]
             ELSE The({
                    The({
                      The({ IF IsSome(ev.event)
                            THEN [client |-> [c EXCEPT
                                        !.server_connection = Some(ev.conn)],
                                  sent |-> loop.sent,
                                  output |-> Some("Event"), event |-> ev.event]
                            ELSE IF IsSome(msg.message)
                            THEN [client |-> [c EXCEPT
                                        !.server_connection = Some(msg.conn)],
                                  sent |-> loop.sent,
                                  output |-> Some(entity_event(
                                                     Unwrap(msg.message))),
                                  event |-> None]
                            ELSE [client |-> [c EXCEPT
                                        !.server_connection = Some(loop.conn)],
                                  sent |-> loop.sent,
                                  output |-> None, event |-> None] :
                            ev  \in {get_incoming_event(loop.conn)},
                            msg \in {get_incoming_entity_message(loop.conn)} }) :
                      loop \in {send_loop(hb.conn,
                                          IF IsSome(hb.packet)
                                          THEN <<Unwrap(hb.packet)>>
                                          ELSE <<>>)} }) :
                    hb \in {IF should_send_heartbeat(connection)
                            THEN internal_send_with_connection(
                                     connection, "Heartbeat")
                            ELSE [conn |-> connection, packet |-> None]} })
    ELSE The({ [client |-> hs.client, sent |-> hs.sent,
                output |-> None, event |-> None] :
               hs \in {send_handshake(c, now)} })

\* for _ in 0..32 { digest_bytes.push(reader.read_u8()) }: the next
\* DigestLength bytes; the read fails (ok = FALSE) when they run out.
read_digest(bytes) ==
    IF Len(bytes) >= DigestLength
    THEN [ok |-> TRUE, value |-> SubSeq(bytes, 1, DigestLength)]
    ELSE [ok |-> FALSE, value |-> <<>>]

\* ServerChallengeResponse with the timestamp comparison left out.
challenge_accepts_any_timestamp(c, packet) ==
    IF c.connection_state = "AwaitingChallengeResponse"
       /\ IsSome(c.pre_connection_timestamp)
    THEN The({ IF ~digest_bytes.ok
               THEN [client |-> c, set_tick |-> None, ok |-> FALSE]
               ELSE [client |-> [c EXCEPT
                           !.pre_connection_digest = Some(digest_bytes.value),
                           !.tick = set_tick(@, packet.server_tick),
                           !.connection_state = "AwaitingConnectResponse"],
                     set_tick |-> Some(packet.server_tick), ok |-> TRUE] :
               digest_bytes \in {read_digest(packet.digest)} })
    ELSE [client |-> c, set_tick |-> None, ok |-> TRUE]

\* The challenge response arm storing the digest bytes as they come,
\* however many there are.
challenge_stores_any_digest(c, packet) ==
    IF c.connection_state = "AwaitingChallengeResponse"
       /\ IsSome(c.pre_connection_timestamp)
       /\ Unwrap(c.pre_connection_timestamp) = packet.timestamp
    THEN [client |-> [c EXCEPT
                !.pre_connection_digest = Some(packet.digest),
                !.tick = set_tick(@, packet.server_tick),
                !.connection_state = "AwaitingConnectResponse"],
          set_tick |-> Some(packet.server_tick), ok |-> TRUE]
    ELSE [client |-> c, set_tick |-> None, ok |-> TRUE]

\* PacketType::ServerChallengeResponse, with no connection.  ok = FALSE
\* when the read of the digest panicked.
on_server_challenge_response(c, packet) ==
    IF c.connection_state = "AwaitingChallengeResponse"
       /\ IsSome(c.pre_connection_timestamp)
       /\ Unwrap(c.pre_connection_timestamp) = packet.timestamp
    THEN The({ IF ~digest_bytes.ok
               THEN [client |-> c, set_tick |-> None, ok |-> FALSE]
               ELSE [client |-> [c EXCEPT
                           !.pre_connection_digest = Some(digest_bytes.value),
                           !.tick = set_tick(@, packet.server_tick),
                           !.connection_state = "AwaitingConnectResponse"],
                     set_tick |-> Some(packet.server_tick), ok |-> TRUE] :
               digest_bytes \in {read_digest(packet.digest)} })
    ELSE [client |-> c, set_tick |-> None, ok |-> TRUE]

\* PacketType::ServerConnectResponse, with no connection.
on_server_connect_response(c, packet) ==
    [c EXCEPT !.server_connection = Some(ServerConnection_new),
              !.connection_state = "Connected"]

\* One datagram taken off the socket: the client after it, the output it
\* sets, the set_tick call it makes, whether its decoding succeeded, and
\* whether process_incoming_header was called on its header.
on_packet(c, packet) ==
    IF IsSome(c.server_connection)
    THEN The({ IF packet.packet_type = "Data"
               THEN The({ [client |-> [c EXCEPT
                                         !.server_connection = Some(r.conn)],
                           output |-> None, set_tick |-> None, ok |-> r.ok,
                           header |-> TRUE] :
                          r \in {process_incoming_data(heard, packet.payload)} })
               ELSE [client |-> [c EXCEPT !.server_connection = Some(heard)],
                     output |-> None, set_tick |-> None, ok |-> TRUE,
                     header |-> TRUE] :
               heard \in {process_incoming_header(
                              mark_heard(Unwrap(c.server_connection)),
                              packet.notice)} })
    ELSE CASE packet.packet_type = "ServerChallengeResponse" ->
                The({ [client |-> r.client, output |-> None,
                       set_tick |-> r.set_tick, ok |-> r.ok,
                       header |-> FALSE] :
                      r \in {on_server_challenge_response(c, packet)} })
           [] packet.packet_type = "ServerConnectResponse" ->
                [client |-> on_server_connect_response(c, packet),
                 output |-> Some("Connection"), set_tick |-> None, ok |-> TRUE,
                 header |-> FALSE]
           [] OTHER ->
                [client |-> c, output |-> None, set_tick |-> None, ok |-> TRUE,
                 header |-> FALSE]

\* while output.is_none() { match self.socket.receive() .. }: the run of
\* the loop from the state st of the call.
RECURSIVE socket_loop(_)
socket_loop(st) ==
    IF IsSome(st.output) \/ ~st.ok
    THEN st
    ELSE IF st.socket = <<>>
    THEN [st EXCEPT !.output = Some("None")]
    ELSE LET packet == Head(st.socket)
         IN  IF packet.packet_type = "Error"
             THEN [st EXCEPT !.socket = Tail(@), !.output = Some("Err")]
             ELSE The({ The({ socket_loop(st1) :
                              st1 \in {[client   |-> r.client,
                                        socket   |-> Tail(st.socket),
                                        output   |-> r.output,
                                        ok       |-> r.ok,
                                        log      |-> Append(st.log,
                                                      [packet |-> packet,
                                                       before |-> st.client,
                                                       after  |-> r.client,
                                                       header |-> r.header]),
                                        set_ticks |->
                                            IF IsSome(r.set_tick)
                                            THEN Append(st.set_ticks,
                                                        Unwrap(r.set_tick))
                                            ELSE st.set_ticks]} }) :
                        r \in {on_packet(st.client, packet)} })

\* NaiaClient::receive on the client c with the datagrams sock waiting.
receive(c, sock, now, elapsed) ==
    The({ The({ [client    |-> loop.client,
                 socket    |-> loop.socket,
                 output    |-> loop.output,
                 ok        |-> loop.ok,
                 log       |-> loop.log,
                 set_ticks |-> loop.set_ticks,
                 sent      |-> pre.sent,
                 event     |-> pre.event] :
                loop \in {socket_loop([client |-> pre.client, socket |-> sock,
                                       output |-> pre.output, ok |-> TRUE,
                                       log |-> <<>>, set_ticks |-> <<>>])} }) :
          pre \in {before_socket([c EXCEPT !.tick = update_frame(@, elapsed)],
                                 now)} })

\* -------------------------------------------------- the client's operations
Init ==
    /\ client = NaiaClient_new
    /\ socket = <<>>
    /\ panicked = FALSE
    /\ next_event_id = 1
    /\ wire = <<>>
    /\ peer_incoming = {}
    /\ losses = 0
    /\ written = {}
    /\ acked = {}
    /\ last_call = Call("new", NoIndex, None, None, None)
    /\ last_pop = None
    /\ rx_log = <<>>
    /\ result = "None"
    /\ outbox = <<>>
    /\ accepted = None
    /\ set_tick_arg = None
    /\ after_drop = FALSE
    /\ entity_manager = ClientEntityManager_new
    /\ interpolation_manager = InterpolationManager_new
    /\ interp_call = [op |-> "new", key |-> 0, now |-> 0, returned |-> None]

\* An entry of rx_log in which a ServerChallengeResponse was accepted.
IsAcceptance(entry) ==
    /\ entry.packet.packet_type = "ServerChallengeResponse"
    /\ entry.before.connection_state = "AwaitingChallengeResponse"
    /\ entry.after.connection_state = "AwaitingConnectResponse"

\* Event records and entity messages the body of a Data packet adds to a
\* connection.
Carried(data) ==
    The({ Len(r.conn.event_manager.queued_incoming_events)
            + Len(r.conn.entity_messages) :
          r \in {process_incoming_data(ServerConnection_new, data)} })

RECURSIVE Backlog(_)
Backlog(sock) ==
    IF sock = <<>> THEN 0
    ELSE (IF Head(sock).packet_type = "Data"
          THEN Carried(Head(sock).payload) ELSE 0) + Backlog(Tail(sock))

Waiting ==
    IF IsSome(client.server_connection)
    THEN Len(EM.queued_incoming_events) + Len(Conn.entity_messages)
    ELSE 0

\* A datagram (or a socket error) reaches the client socket.
Arrive(datagram) ==
    /\ ~panicked
    /\ Len(socket) < MaxSocket
    /\ datagram.packet_type = "Heartbeat" /\ IsSome(datagram.notice)
          => /\ IsSome(client.server_connection)
             /\ Unwrap(datagram.notice).index \in DOMAIN EM.sent_events
    /\ Waiting + Backlog(Append(socket, datagram)) <= MaxIncoming
    /\ socket' = Append(socket, datagram)
    /\ last_call' = Call("idle", NoIndex, None, None, None)
    /\ last_pop' = None
    /\ Forget
    /\ UNCHANGED <<client, panicked, next_event_id, wire, peer_incoming, losses,
                   written, acked>>

\* send_handshake_interval has elapsed since the timer was reset.  The
\* timer is read only without a connection: while one lives, its ringing
\* is left until the drop timer has fired.
HandshakeTimerRings ==
    /\ ~panicked
    /\ ~client.handshake_timer_ringing
    /\ IsSome(client.server_connection) => should_drop(Conn)
    /\ client' = [client EXCEPT !.handshake_timer_ringing = TRUE]
    /\ last_call' = Call("idle", NoIndex, None, None, None)
    /\ last_pop' = None
    /\ Forget
    /\ UNCHANGED <<socket, panicked, next_event_id, wire, peer_incoming, losses,
                   written, acked>>

\* heartbeat_interval has elapsed since the last mark_sent.
HeartbeatTimerRings ==
    /\ ~panicked
    /\ IsSome(client.server_connection)
    /\ ~Conn.heartbeat_ringing
    /\ client' = WithConn([Conn EXCEPT !.heartbeat_ringing = TRUE])
    /\ last_call' = Call("idle", NoIndex, None, None, None)
    /\ last_pop' = None
    /\ Forget
    /\ UNCHANGED <<socket, panicked, next_event_id, wire, peer_incoming, losses,
                   written, acked>>

\* disconnection_timeout_duration has elapsed since the last mark_heard.
DropTimerRings ==
    /\ ~panicked
    /\ IsSome(client.server_connection)
    /\ ~Conn.drop_ringing
    /\ client' = WithConn([Conn EXCEPT !.drop_ringing = TRUE])
    /\ last_call' = Call("idle", NoIndex, None, None, None)
    /\ last_pop' = None
    /\ Forget
    /\ UNCHANGED <<socket, panicked, next_event_id, wire, peer_incoming, losses,
                   written, acked>>

\* One call of receive().  now is Timestamp::now(), elapsed whether a tick
\* interval has passed, send_ok whether the sender accepts packets.
Receive(now, elapsed, send_ok) ==
    /\ ~panicked
    /\ \E r \in {receive(client, socket, now, elapsed)} :
           IF (r.sent # <<>> /\ ~send_ok) \/ ~r.ok
           THEN /\ panicked' = TRUE
                /\ result' = IF r.sent # <<>> /\ ~send_ok
                              THEN "panic: send failed!"
                              ELSE "panic: decoding"
                /\ UNCHANGED <<client, socket, last_call, last_pop, rx_log,
                               outbox, accepted, set_tick_arg, after_drop>>
           ELSE /\ panicked' = FALSE
                /\ client' = r.client
                /\ socket' = r.socket
                /\ last_call' = Call("receive", NoIndex, r.event, None, None)
                /\ last_pop' = None
                /\ rx_log' = r.log
                /\ result' = Unwrap(r.output)
                /\ outbox' = r.sent
                /\ after_drop' = (result = "Disconnection")
                /\ accepted' =
                     IF Unwrap(r.output) = "Disconnection" THEN None
                     ELSE LET taken == SelectSeq(r.log, IsAcceptance)
                          IN  IF taken # <<>>
                              THEN Some(taken[Len(taken)].packet)
                              ELSE accepted
                /\ set_tick_arg' =
                     IF Unwrap(r.output) = "Disconnection" THEN None
                     ELSE IF r.set_ticks # <<>>
                     THEN Some(r.set_ticks[Len(r.set_ticks)])
                     ELSE set_tick_arg
    \* the channel's view of the packets is kept by SpecConn only
    /\ UNCHANGED <<next_event_id, wire, peer_incoming, losses, written, acked,
                   interp_vars>>

Next ==
    \/ \E datagram \in Datagrams : Arrive(datagram)
    \/ HandshakeTimerRings
    \/ HeartbeatTimerRings
    \/ DropTimerRings
    \/ PingDue
    \/ \E now \in Timestamps, elapsed \in BOOLEAN, send_ok \in BOOLEAN :
          Receive(now, elapsed, send_ok)

Spec == Init /\ [][Next]_vars

\* Any call of receive().
ReceiveCall ==
    \E now \in Timestamps, elapsed \in BOOLEAN, send_ok \in BOOLEAN :
        Receive(now, elapsed, send_ok)

\* ------------------------------------------ a connection receiving data
\* The manager blocks a server writes into a Data body.
Ev(block) == [manager_type |-> "Event", block |-> block]
Ent(kind) == [manager_type |-> "Entity", kind |-> kind]
Ping == [manager_type |-> "Ping"]

RECURSIVE EncodeBody(_)
EncodeBody(blocks) ==
    IF blocks = <<>> THEN <<>>
    ELSE (CASE Head(blocks).manager_type = "Event" ->
                 EncodeEvents(Head(blocks).block)
            [] Head(blocks).manager_type = "Entity" ->
                 EncodeEntity(Head(blocks).kind)
            [] Head(blocks).manager_type = "Ping" ->
                 <<2>> \o [i \in 1 .. PingSize |-> 0])
         \o EncodeBody(Tail(blocks))

\* The records whose naia_id the manifest knows.
KnownRecords == { x \in IncomingRecords : x.naia_id \in KnownNaiaIds }

\* Well-formed bodies: one event block of one or two records; event
\* blocks around an entity block; an event block behind a ping block.
DataContents ==
    { <<Ev(b)>> : b \in { x \in WellFormedBlocks : x.count \in {1, 2} } }
    \cup { <<Ev([count |-> 1, records |-> <<x>>]), Ent(2),
             Ev([count |-> 1, records |-> <<y>>])>> :
             x \in KnownRecords, y \in KnownRecords }
    \cup { <<Ping, Ev([count |-> 1, records |-> <<x>>])>> :
             x \in KnownRecords }

\* Malformed bodies: an event block of one record cut after the tag, the
\* count, the naia_id, the length byte; a tag no manager has, alone and
\* followed by a byte.
MalformedBodies ==
    { SubSeq(<<0, 1, 0, 1, 1, 7>>, 1, n) : n \in {1, 2, 4, 5} }
    \cup { <<5>>, <<5, 0>> }

DataBodies == { EncodeBody(c) : c \in DataContents } \cup MalformedBodies

\* A Data packet reaches the socket of the connected client.
ArriveData(body) ==
    /\ ~panicked
    /\ Len(socket) < MaxSocket
    /\ \E datagram \in {[packet_type |-> "Data", notice |-> None,
                          payload |-> body]} :
          /\ Waiting + Backlog(Append(socket, datagram)) <= MaxQueued
          /\ socket' = Append(socket, datagram)
    /\ last_call' = Call("idle", NoIndex, None, None, None)
    /\ last_pop' = None
    /\ Forget
    /\ UNCHANGED <<client, panicked, next_event_id, wire, peer_incoming, losses,
                   written, acked>>

NextData ==
    \/ \E body \in DataBodies : ArriveData(body)
    \/ ReceiveCall

SpecData == InitEM /\ [][NextData]_vars

\* The client with a server that only ever answers the handshake.
HandshakeDatagrams ==
    { d \in Datagrams :
        d.packet_type \in {"ServerChallengeResponse", "ServerConnectResponse"} }

NextHandshake ==
    \/ \E datagram \in HandshakeDatagrams : Arrive(datagram)
    \/ HandshakeTimerRings
    \/ DropTimerRings
    \/ ReceiveCall

\* The application keeps calling receive() and time keeps passing.
FairHandshake == WF_vars(HandshakeTimerRings) /\ WF_vars(ReceiveCall)

SpecHandshake == Init /\ [][NextHandshake]_vars /\ FairHandshake

\* ------------------------------------------------- a session of the client
\* ServerChallengeResponse bodies with a digest of the right length, one
\* byte short and one byte long.
ChallengeDatagrams ==
    { [packet_type |-> "ServerChallengeResponse", notice |-> None,
       server_tick |-> k, timestamp |-> t, digest |-> [i \in 1 .. n |-> t]] :
         k \in ServerTicks, t \in Timestamps,
         n \in {DigestLength - 1, DigestLength, DigestLength + 1} }

SessionDatagrams ==
    ChallengeDatagrams
    \cup { [packet_type |-> "ServerConnectResponse", notice |-> None] }

\* The application sends guaranteed events and calls receive() (no tick
\* interval passes, the sender accepts every packet); datagrams arrive
\* and the timers fire.
NextSession ==
    \/ \E datagram \in SessionDatagrams : Arrive(datagram)
    \/ \E kind \in { k \in SmallKinds : k.guaranteed } : SendEvent(kind)
    \/ HandshakeTimerRings
    \/ DropTimerRings
    \/ \E now \in Timestamps : Receive(now, FALSE, TRUE)

SpecSession == Init /\ [][NextSession]_vars

\* ------------------------------------------ datagrams with their arrival
\* What a server sends to a client it is connected to, or connecting.
ServerDatagrams ==
    HandshakeDatagrams
    \cup { [packet_type |-> "Heartbeat", notice |-> None] }
    \cup { [packet_type |-> "Data", notice |-> None,
            payload |-> EncodeEvents([count |-> 1, records |-> <<>>])] }

\* The datagram with the time of its arrival at the socket: in_time says
\* that it arrived at a live connection whose drop timer had not fired,
\* that is less than disconnection_timeout_duration after the last
\* mark_heard.
Stamped(datagram) ==
    [d \in {"in_time"} \cup DOMAIN datagram |->
        IF d = "in_time"
        THEN IsSome(client.server_connection) /\ ~should_drop(Conn)
        ELSE datagram[d]]

ArriveStamped(datagram) ==
    /\ ~panicked
    /\ Len(socket) < MaxSocket
    /\ socket' = Append(socket, Stamped(datagram))
    /\ last_call' = Call("idle", NoIndex, None, None, None)
    /\ last_pop' = None
    /\ Forget
    /\ UNCHANGED <<client, panicked, next_event_id, wire, peer_incoming, losses,
                   written, acked>>

NextSilence ==
    \/ \E datagram \in ServerDatagrams : ArriveStamped(datagram)
    \/ HandshakeTimerRings
    \/ DropTimerRings
    \/ ReceiveCall

\* From a client whose handshake has completed.
SpecSilence == InitEM /\ [][NextSilence]_vars

\* ------------------------------------- the interpolation layer's operations
InterpCall(op, key, now, returned) ==
    [op |-> op, key |-> key, now |-> now, returned |-> returned]

\* The server creates or updates an entity, or a pawn, in scope.
EntityArrives(key, value) ==
    /\ entity_manager' = [entity_manager EXCEPT
                            !.entities = MapInsert(@, key, value)]
    /\ interp_call' = InterpCall("entity", key, 0, None)
    /\ UNCHANGED <<client_vars, interpolation_manager>>

PawnArrives(key, value) ==
    /\ entity_manager' = [entity_manager EXCEPT
                            !.pawns = MapInsert(@, key, value)]
    /\ interp_call' = InterpCall("pawn", key, 0, None)
    /\ UNCHANGED <<client_vars, interpolation_manager>>

\* The server deletes an entity, or a pawn.
EntityLeaves(key) ==
    /\ key \in DOMAIN entity_manager.entities
    /\ entity_manager' = [entity_manager EXCEPT
                            !.entities = MapRemove(@, key)]
    /\ interp_call' = InterpCall("entity", key, 0, None)
    /\ UNCHANGED <<client_vars, interpolation_manager>>

PawnLeaves(key) ==
    /\ key \in DOMAIN entity_manager.pawns
    /\ entity_manager' = [entity_manager EXCEPT !.pawns = MapRemove(@, key)]
    /\ interp_call' = InterpCall("pawn", key, 0, None)
    /\ UNCHANGED <<client_vars, interpolation_manager>>

CreateInterpolation(key, now) ==
    /\ interpolation_manager' =
          create_interpolation(interpolation_manager, entity_manager, key, now)
    /\ interp_call' = InterpCall("create_interpolation", key, now, None)
    /\ UNCHANGED <<client_vars, entity_manager>>

DeleteInterpolation(key) ==
    /\ interpolation_manager' =
          delete_interpolation(interpolation_manager, key)
    /\ interp_call' = InterpCall("delete_interpolation", key, 0, None)
    /\ UNCHANGED <<client_vars, entity_manager>>

GetInterpolation(key, now) ==
    /\ \E r \in {get_interpolation(interpolation_manager, entity_manager,
                                    now, key)} :
          /\ interpolation_manager' = r.im
          /\ interp_call' = InterpCall("get_interpolation", key, now,
                                       r.returned)
    /\ UNCHANGED <<client_vars, entity_manager>>

SyncInterpolation(key, now) ==
    /\ interpolation_manager' =
          sync_interpolation(interpolation_manager, key, now)
    /\ interp_call' = InterpCall("sync_interpolation", key, now, None)
    /\ UNCHANGED <<client_vars, entity_manager>>

CreatePawnInterpolation(key, now) ==
    /\ interpolation_manager' =
          create_pawn_interpolation(interpolation_manager, entity_manager,
                                    key, now)
    /\ interp_call' = InterpCall("create_pawn_interpolation", key, now, None)
    /\ UNCHANGED <<client_vars, entity_manager>>

DeletePawnInterpolation(key) ==
    /\ interpolation_manager' =
          delete_pawn_interpolation(interpolation_manager, key)
    /\ interp_call' = InterpCall("delete_pawn_interpolation", key, 0, None)
    /\ UNCHANGED <<client_vars, entity_manager>>

GetPawnInterpolation(key, now) ==
    /\ \E r \in {get_pawn_interpolation(interpolation_manager,
                                         entity_manager, now, key)} :
          /\ interpolation_manager' = r.im
          /\ interp_call' = InterpCall("get_pawn_interpolation", key, now,
                                       r.returned)
    /\ UNCHANGED <<client_vars, entity_manager>>

SyncPawnInterpolation(key, now) ==
    /\ interpolation_manager' =
          sync_pawn_interpolation(interpolation_manager, key, now)
    /\ interp_call' = InterpCall("sync_pawn_interpolation", key, now, None)
    /\ UNCHANGED <<client_vars, entity_manager>>

NextInterpolation ==
    \/ \E key \in LocalEntityKeys, value \in EntityValues :
          EntityArrives(key, value)
    \/ \E key \in LocalEntityKeys, value \in EntityValues :
          PawnArrives(key, value)
    \/ \E key \in LocalEntityKeys : EntityLeaves(key)
    \/ \E key \in LocalEntityKeys : PawnLeaves(key)
    \/ \E key \in LocalEntityKeys, now \in Instants :
          CreateInterpolation(key, now)
    \/ \E key \in LocalEntityKeys : DeleteInterpolation(key)
    \/ \E key \in LocalEntityKeys, now \in Instants :
          GetInterpolation(key, now)
    \/ \E key \in LocalEntityKeys, now \in Instants :
          SyncInterpolation(key, now)
    \/ \E key \in LocalEntityKeys, now \in Instants :
          CreatePawnInterpolation(key, now)
    \/ \E key \in LocalEntityKeys : DeletePawnInterpolation(key)
    \/ \E key \in LocalEntityKeys, now \in Instants :
          GetPawnInterpolation(key, now)
    \/ \E key \in LocalEntityKeys, now \in Instants :
          SyncPawnInterpolation(key, now)

SpecInterpolation == Init /\ [][NextInterpolation]_vars

\* ----------------------------------------------------------------- claims
IsGuaranteed(event) == event.guaranteed

\* C1: pop_outgoing_event(s) followed at once by unpop_outgoing_event(s, e),
\* e the event just popped, leaves queued_outgoing_events and sent_events as
\* they were before the pop.
C1_PopUnpopRestores ==
    [][ last_call'.op = "unpop_outgoing_event" =>
          /\ IsSome(last_pop)
          /\ EM'.queued_outgoing_events
               = Unwrap(last_pop).before.queued_outgoing_events
          /\ EM'.sent_events = Unwrap(last_pop).before.sent_events ]_vars

\* A guaranteed event has been popped into a bucket that already held an
\* event and then been un-popped.
C1_Witness ==
    /\ last_call.op = "unpop_outgoing_event"
    /\ Unwrap(last_call.event).guaranteed
    /\ last_call.index \in DOMAIN EM.sent_events
    /\ Head(EM.queued_outgoing_events) = Unwrap(last_call.event)

\* C2: every event in a bucket of sent_events is guaranteed.
C2_SentEventsGuaranteed ==
    \A s \in DOMAIN EM.sent_events :
        \A i \in DOMAIN EM.sent_events[s] : EM.sent_events[s][i].guaranteed

\* A non-guaranteed event has just been popped for a packet index that has
\* a bucket.
C2_Witness ==
    /\ last_call.op = "pop_outgoing_event"
    /\ IsSome(last_call.event)
    /\ ~Unwrap(last_call.event).guaranteed
    /\ last_call.index \in DOMAIN EM.sent_events

\* C3: when get_outgoing_packet returns a packet for index s, the bucket of
\* s holds exactly the guaranteed events written into the packet, in write
\* order (no bucket when there is none); the events written are the head of
\* the queue as it was, and what follows them, first the event that did not
\* fit, is the queue now.
C3_BucketIsWhatWasWritten ==
    [][ (last_call'.op = "get_outgoing_packet" /\ IsSome(last_call'.packet)) =>
          LET packet  == Unwrap(last_call'.packet)
              s       == packet.index
              tracked == SelectSeq(packet.events, IsGuaranteed)
          IN  /\ s = Conn.next_packet_index
              /\ IF tracked = <<>>
                 THEN s \notin DOMAIN EM'.sent_events
                 ELSE /\ s \in DOMAIN EM'.sent_events
                      /\ EM'.sent_events[s] = tracked
              /\ EM.queued_outgoing_events
                   = packet.events \o EM'.queued_outgoing_events
              /\ \A i \in DOMAIN EM'.queued_outgoing_events :
                    EM'.queued_outgoing_events[i].id \notin EventIds(tracked)
        ]_vars

\* A packet was built with a guaranteed event in it while the next event,
\* guaranteed too and small enough for an empty packet, did not fit and is
\* back at the head of the queue.
C3_Witness ==
    /\ last_call.op = "get_outgoing_packet"
    /\ IsSome(last_call.packet)
    /\ last_call.index \in DOMAIN EM.sent_events
    /\ EM.queued_outgoing_events # <<>>
    /\ Head(EM.queued_outgoing_events).guaranteed
    /\ Head(EM.queued_outgoing_events).size <= MtuBudget

Held(id) ==
    \/ \E i \in DOMAIN EM.queued_outgoing_events :
          EM.queued_outgoing_events[i].id = id
    \/ \E s \in DOMAIN EM.sent_events :
          \E i \in DOMAIN EM.sent_events[s] : EM.sent_events[s][i].id = id

QueuedGuaranteed(id) ==
    \E i \in DOMAIN EM.queued_outgoing_events :
        /\ EM.queued_outgoing_events[i].id = id
        /\ EM.queued_outgoing_events[i].guaranteed

\* C4: every guaranteed event queued on a live connection eventually reaches
\* the peer's incoming queue.
C4_GuaranteedEventuallyDelivered ==
    \A id \in 1 .. MaxEvents : QueuedGuaranteed(id) ~> (id \in peer_incoming)

\* C5: notify_packet_dropped(s), when s has a bucket, appends the bucket to
\* the tail of the outgoing queue in the bucket's order and removes the
\* bucket; the other buckets and the incoming queue stay as they are.
C5_DroppedRequeuesAtTail ==
    [][ (last_call'.op = "notify_packet_dropped"
          /\ last_call'.index \in DOMAIN EM.sent_events) =>
          LET s == last_call'.index
          IN  /\ EM'.queued_outgoing_events
                   = EM.queued_outgoing_events \o EM.sent_events[s]
              /\ DOMAIN EM'.sent_events = (DOMAIN EM.sent_events) \ {s}
              /\ \A t \in DOMAIN EM'.sent_events :
                    EM'.sent_events[t] = EM.sent_events[t]
              /\ EM'.queued_incoming_events = EM.queued_incoming_events
        ]_vars

\* A bucket was dropped behind an event already queued, while an incoming
\* event was waiting.
C5_Witness ==
    /\ last_call.op = "notify_packet_dropped"
    /\ IsSome(last_call.bucket)
    /\ Len(EM.queued_outgoing_events) > Len(Unwrap(last_call.bucket))
    /\ EM.queued_incoming_events # <<>>

PacketHasGuaranteed(packet) ==
    \E i \in DOMAIN packet.events : packet.events[i].guaranteed

\* C6: notify_packet_delivered(s) removes the bucket of s and re-queues
\* nothing; an event of an acknowledged packet is neither queued nor
\* tracked any more, so it is not transmitted again; with no packet that
\* carries guaranteed events left to be notified, sent_events is empty.
C6_DeliveredDropsBucket ==
    /\ [][ last_call'.op = "notify_packet_delivered" =>
             /\ EM'.queued_outgoing_events = EM.queued_outgoing_events
             /\ DOMAIN EM'.sent_events
                  = (DOMAIN EM.sent_events) \ {last_call'.index}
             /\ \A t \in DOMAIN EM'.sent_events :
                   EM'.sent_events[t] = EM.sent_events[t] ]_vars
    /\ [](\A id \in acked : ~Held(id))
    /\ []((\A s \in DOMAIN wire : ~PacketHasGuaranteed(wire[s]))
            => EM.sent_events = <<>>)

\* A packet with a guaranteed event was notified delivered while another
\* event was still queued.
C6_Witness ==
    /\ last_call.op = "notify_packet_delivered"
    /\ IsSome(last_call.bucket)
    /\ acked # {}
    /\ EM.queued_outgoing_events # <<>>
    /\ EM.sent_events = <<>>

\* C7: a non-guaranteed event written into a packet was not written into
\* any packet before, and notify_packet_dropped appends only guaranteed
\* events to the outgoing queue.
C7_UnguaranteedSentOnce ==
    /\ [][ (last_call'.op = "get_outgoing_packet" /\ IsSome(last_call'.packet)) =>
             \A i \in DOMAIN Unwrap(last_call'.packet).events :
                LET event == Unwrap(last_call'.packet).events[i]
                IN  ~event.guaranteed => event.id \notin written ]_vars
    /\ [][ last_call'.op = "notify_packet_dropped" =>
             /\ Len(EM'.queued_outgoing_events) >= Len(EM.queued_outgoing_events)
             /\ \A i \in DOMAIN EM'.queued_outgoing_events :
                   i > Len(EM.queued_outgoing_events)
                     => EM'.queued_outgoing_events[i].guaranteed ]_vars
    /\ [](\A i \in DOMAIN EM.queued_outgoing_events :
             ~EM.queued_outgoing_events[i].guaranteed
               => EM.queued_outgoing_events[i].id \notin written)

\* The packet that carried a non-guaranteed event and a guaranteed one was
\* notified dropped: only the guaranteed event is queued again.
C7_Witness ==
    /\ last_call.op = "notify_packet_dropped"
    /\ IsSome(last_call.bucket)
    /\ \E id \in written : ~Held(id) /\ id \notin peer_incoming
    /\ EM.queued_outgoing_events # <<>>

\* C8: connection_state moves only AwaitingChallengeResponse ->
\* AwaitingConnectResponse -> Connected: no datagram takes the client to
\* Connected from a state other than AwaitingConnectResponse, and receive()
\* returns Connection only in a handshake that accepted a
\* ServerChallengeResponse.
C8_ConnectedOnlyAfterChallenge ==
    /\ \A i \in DOMAIN rx_log :
          LET from == rx_log[i].before.connection_state
              to   == rx_log[i].after.connection_state
          IN  from # to =>
                \/ from = "AwaitingChallengeResponse"
                     /\ to = "AwaitingConnectResponse"
                \/ from = "AwaitingConnectResponse" /\ to = "Connected"
    /\ result = "Connection" => IsSome(accepted)

\* The stored timestamp is echoed by the ServerChallengeResponse of entry.
EchoesStored(entry) ==
    /\ IsSome(entry.before.pre_connection_timestamp)
    /\ Unwrap(entry.before.pre_connection_timestamp) = entry.packet.timestamp

\* C9: a ServerChallengeResponse taken in AwaitingChallengeResponse with a
\* stored timestamp that it echoes is accepted: its digest is stored and
\* the state is AwaitingConnectResponse.  Every other
\* ServerChallengeResponse leaves the stored digest, the tick and
\* connection_state as they were.
C9_ChallengeAcceptedOnlyOnEcho ==
    \A i \in DOMAIN rx_log :
        LET entry == rx_log[i]
        IN  entry.packet.packet_type = "ServerChallengeResponse" =>
              IF /\ entry.before.connection_state = "AwaitingChallengeResponse"
                 /\ EchoesStored(entry)
              THEN /\ entry.after.pre_connection_digest
                        = Some(entry.packet.digest)
                   /\ entry.after.connection_state = "AwaitingConnectResponse"
              ELSE /\ entry.after.pre_connection_digest
                        = entry.before.pre_connection_digest
                   /\ entry.after.tick = entry.before.tick
                   /\ entry.after.connection_state
                        = entry.before.connection_state

\* One receive() took a ServerChallengeResponse with another timestamp than
\* the stored one, which it ignored, and then one that it accepted.
C9_Witness ==
    \E i, j \in DOMAIN rx_log :
        /\ i < j
        /\ rx_log[i].packet.packet_type = "ServerChallengeResponse"
        /\ rx_log[i].before.connection_state = "AwaitingChallengeResponse"
        /\ IsSome(rx_log[i].before.pre_connection_timestamp)
        /\ ~EchoesStored(rx_log[i])
        /\ rx_log[i].after = rx_log[i].before
        /\ IsAcceptance(rx_log[j])

\* C10: accepting a ServerChallengeResponse sets the tick to its
\* server_tick, and when receive() returns Connection, set_tick has been
\* called in this handshake with the server_tick of the accepted response.
C10_TickSetBeforeConnected ==
    /\ \A i \in DOMAIN rx_log :
          IsAcceptance(rx_log[i])
            => rx_log[i].after.tick = rx_log[i].packet.server_tick
    /\ result = "Connection" =>
          /\ IsSome(accepted)
          /\ set_tick_arg = Some(Unwrap(accepted).server_tick)

\* A step in which a call of receive() returned.
ReceiveReturns == last_call'.op = "receive" /\ ~panicked'

\* C11: when the drop timer has fired receive() returns Disconnection, once:
\* the connection is gone afterwards, the call that follows never returns
\* Disconnection again, and with no connection and no datagram waiting
\* receive() returns None and stays without a connection.
C11_DisconnectionOnce ==
    /\ [][ ReceiveReturns =>
             /\ (result' = "Disconnection")
                   <=> (IsSome(client.server_connection) /\ should_drop(Conn))
             /\ result' = "Disconnection" => ~IsSome(client'.server_connection)
             /\ (~IsSome(client.server_connection) /\ socket = <<>>)
                   => /\ result' = "None"
                      /\ ~IsSome(client'.server_connection) ]_vars
    /\ [](after_drop => result # "Disconnection")

\* Disconnection was returned, and the call after it re-sent the challenge
\* request and returned None.
C11_Witness ==
    /\ after_drop
    /\ result = "None"
    /\ rx_log = <<>>
    /\ outbox # <<>>

\* C12: when receive() reports Disconnection the client is back in the
\* initial handshake state with no connection, no stored timestamp and no
\* stored digest; a ServerChallengeResponse taken by a call that started
\* with no stored timestamp is accepted only if it echoes the timestamp
\* that very call generated and sent.
C12_DisconnectionResets ==
    /\ [](result = "Disconnection" =>
             /\ client.server_connection = None
             /\ client.connection_state = "AwaitingChallengeResponse"
             /\ client.pre_connection_timestamp = None
             /\ client.pre_connection_digest = None)
    /\ [][ (/\ ReceiveReturns
            /\ ~IsSome(client.server_connection)
            /\ ~IsSome(client.pre_connection_timestamp)) =>
             \A i \in DOMAIN rx_log' :
                IsAcceptance(rx_log'[i]) =>
                  outbox' = <<[packet_type |-> "ClientChallengeRequest",
                               timestamp |-> rx_log'[i].packet.timestamp]>>
        ]_vars

\* After a Disconnection the next call generated a timestamp and refused a
\* ServerChallengeResponse echoing another one.
C12_Witness ==
    /\ after_drop
    /\ IsSome(client.pre_connection_timestamp)
    /\ \E i \in DOMAIN rx_log :
          /\ rx_log[i].packet.packet_type = "ServerChallengeResponse"
          /\ rx_log[i].packet.timestamp # Unwrap(client.pre_connection_timestamp)
          /\ ~IsAcceptance(rx_log[i])

HandshakeTypes == {"ClientChallengeRequest", "ClientConnectRequest"}

\* The handshake packet receive() owes when the timer rings in the state
\* before the call; stored is the timestamp held after the call.
HandshakePacket(c, stored) ==
    CASE c.connection_state = "AwaitingChallengeResponse" ->
            <<[packet_type |-> "ClientChallengeRequest",
               timestamp   |-> IF IsSome(c.pre_connection_timestamp)
                               THEN Unwrap(c.pre_connection_timestamp)
                               ELSE Unwrap(stored)]>>
      [] c.connection_state = "AwaitingConnectResponse" ->
            <<[packet_type |-> "ClientConnectRequest",
               timestamp   |-> Unwrap(c.pre_connection_timestamp),
               digest      |-> Unwrap(c.pre_connection_digest)]>>
      [] OTHER -> <<>>

\* The handshake packet of the state is sent again, unless the state
\* changes or the process has aborted.
Resent(state, type) ==
    (client.connection_state = state /\ outbox = <<>> /\ ~panicked)
      ~> \/ \E i \in DOMAIN outbox : outbox[i].packet_type = type
         \/ client.connection_state # state
         \/ panicked

\* C13: without a connection, a receive() that finds the handshake timer
\* ringing sends exactly the one handshake packet of its state, carrying
\* the stored timestamp (and digest), and resets the timer, and sends
\* nothing when the timer is silent; the stored timestamp stays the same
\* until a Disconnection; with a connection no handshake packet is sent;
\* and the packet of a state is sent again and again until the state
\* changes.
C13_HandshakeResent ==
    /\ [][ ReceiveReturns =>
             /\ IF IsSome(client.server_connection)
                THEN \A i \in DOMAIN outbox' :
                        outbox'[i].packet_type \notin HandshakeTypes
                ELSE IF client.handshake_timer_ringing
                THEN /\ outbox' = HandshakePacket(
                                     client, client'.pre_connection_timestamp)
                     /\ Len(outbox') = 1
                     /\ ~client'.handshake_timer_ringing
                ELSE outbox' = <<>>
             /\ (IsSome(client.pre_connection_timestamp)
                   /\ result' # "Disconnection")
                  => client'.pre_connection_timestamp
                       = client.pre_connection_timestamp ]_vars
    /\ Resent("AwaitingChallengeResponse", "ClientChallengeRequest")
    /\ Resent("AwaitingConnectResponse", "ClientConnectRequest")

\* A ClientConnectRequest carrying the timestamp and the digest of the
\* accepted challenge response has been sent.
C13_Witness ==
    /\ IsSome(accepted)
    /\ client.connection_state = "AwaitingConnectResponse"
    /\ rx_log = <<>>
    /\ outbox = <<[packet_type |-> "ClientConnectRequest",
                   timestamp   |-> Unwrap(accepted).timestamp,
                   digest      |-> Unwrap(accepted).digest]>>

\* C14: one call of receive() hands at most one datagram that is not a
\* handshake packet to the connection (the datagrams drained while the
\* handshake is running are not counted).
C14_OneDatagramPerCall ==
    Cardinality({ i \in DOMAIN rx_log :
                    /\ IsSome(rx_log[i].before.server_connection)
                    /\ rx_log[i].packet.packet_type
                          \notin {"ServerChallengeResponse",
                                   "ServerConnectResponse"} }) <= 1

\* The events a manifest that knows KnownNaiaIds makes of the records.
IsKnown(rec) == rec.naia_id \in KnownNaiaIds
KnownEvents(records) == SelectSeq(records, IsKnown)

\* C16: process_data on the bytes of an event block does not fail on a
\* record of unknown naia_id and pushes nothing for it, while the records
\* of known naia_id among the count records of the block, before and after
\* it, are appended to the incoming queue in their order; nothing else of
\* the EventManager changes.
C16_UnknownIdSkipped ==
    [][ last_call'.op = "process_data" =>
          \A b \in EventBlocks :
             (b.count <= Len(b.records)
                /\ EncodeBlock(b) = Unwrap(last_call'.packet)) =>
               /\ ~panicked'
               /\ EM'.queued_incoming_events
                    = EM.queued_incoming_events
                        \o KnownEvents(SubSeq(b.records, 1, b.count))
               /\ EM'.queued_outgoing_events = EM.queued_outgoing_events
               /\ EM'.sent_events = EM.sent_events ]_vars

\* A block of three records, the middle one of unknown naia_id and with a
\* payload, has been decoded behind an event already queued.
C16_Witness ==
    /\ last_call.op = "process_data"
    /\ ~panicked
    /\ Len(EM.queued_incoming_events) = 3
    /\ \E b \in WellFormedBlocks :
          /\ EncodeBlock(b) = Unwrap(last_call.packet)
          /\ b.count = 3
          /\ IsKnown(b.records[1]) /\ ~IsKnown(b.records[2])
          /\ IsKnown(b.records[3])
          /\ b.records[2].payload # <<>>
          /\ b.records[1] # b.records[3]

\* The events a client that knows KnownNaiaIds gets out of a Data body.
RECURSIVE EventsOf(_)
EventsOf(blocks) ==
    IF blocks = <<>> THEN <<>>
    ELSE (IF Head(blocks).manager_type = "Event"
          THEN KnownEvents(Head(blocks).block.records)
          ELSE <<>>) \o EventsOf(Tail(blocks))

Expected(body) ==
    IF \E c \in DataContents : EncodeBody(c) = body
    THEN EventsOf(CHOOSE c \in DataContents : EncodeBody(c) = body)
    ELSE <<>>

\* The events of the packets of a log, packet after packet.
RECURSIVE Received(_)
Received(log) ==
    IF log = <<>> THEN <<>>
    ELSE (IF Head(log).packet.packet_type = "Data"
          THEN Expected(Head(log).packet.payload)
          ELSE <<>>) \o Received(Tail(log))

C17_MalformedDropped == ~(panicked /\ result = "panic: decoding")

\* C18: no receive() aborts in a send, and an Err returned for a failure
\* of the socket's receive leaves the client as the last datagram taken
\* before it left it.
C18_TransportFailuresReturned ==
    /\ ~(panicked /\ result = "panic: send failed!")
    /\ (result = "Err" /\ rx_log # <<>>) => client = rx_log[Len(rx_log)].after

\* C19: process_incoming_header is never called on the header of a
\* ServerChallengeResponse or ServerConnectResponse, with or without a
\* connection.
C19_HandshakeBypassesAcks ==
    \A i \in DOMAIN rx_log :
        rx_log[i].packet.packet_type
            \in {"ServerChallengeResponse", "ServerConnectResponse"}
          => ~rx_log[i].header

\* C20: after sync_interpolation(key, now), and after
\* sync_pawn_interpolation(key, now), for a key that has a stored record
\* and a live entity, the record's instant is now and its snapshot is the
\* live entity.
C20_SyncRefreshesRecord ==
    [][ /\ (/\ interp_call'.op = "sync_interpolation"
            /\ interp_call'.key \in DOMAIN interpolation_manager.entity_store
            /\ interp_call'.key \in DOMAIN entity_manager.entities) =>
             interpolation_manager'.entity_store[interp_call'.key]
               = [updated |-> interp_call'.now,
                  entity  |-> entity_manager.entities[interp_call'.key]]
        /\ (/\ interp_call'.op = "sync_pawn_interpolation"
            /\ interp_call'.key \in DOMAIN interpolation_manager.pawn_store
            /\ interp_call'.key \in DOMAIN entity_manager.pawns) =>
             interpolation_manager'.pawn_store[interp_call'.key]
               = [updated |-> interp_call'.now,
                  entity  |-> entity_manager.pawns[interp_call'.key]]
      ]_vars

\* The record write_data emits is well formed: the naia_id as a big-endian
\* u16, a length byte equal to the number of payload bytes, the payload.
WellFormedRecord(bytes, event) ==
    /\ Len(bytes) = 3 + Len(event.payload)
    /\ bytes[1] * 256 + bytes[2] = event.naia_id
    /\ bytes[3] = Len(event.payload)
    /\ SubSeq(bytes, 4, Len(bytes)) = event.payload

\* C21: write_data lays an event of at most 255 payload bytes out as
\* naia_id (u16, big endian), the payload length in one byte, the payload,
\* and process_data on a block of such records appends exactly the events
\* written, in order; for an event of more than 255 payload bytes
\* write_data emits no record whose length byte differs from the number of
\* payload bytes behind it.
C21_EventRoundTrip ==
    /\ [](\A event \in OutgoingRecords :
            IF Len(event.payload) <= MaxPayloadLength
            THEN WellFormedRecord(write_data(event), event)
            ELSE Len(write_data(event)) >= 3
                   => write_data(event)[3] = Len(write_data(event)) - 3)
    /\ [][ last_call'.op = "process_data" =>
             \A b \in OutgoingBlocks :
                (/\ EncodeBlock(b) = Unwrap(last_call'.packet)
                 /\ \A i \in DOMAIN b.records :
                       Len(b.records[i].payload) <= MaxPayloadLength) =>
                  /\ ~panicked'
                  /\ EM'.queued_incoming_events
                       = EM.queued_incoming_events \o b.records ]_vars

\* C22: a receive() called on a live connection while a Heartbeat or Data
\* datagram is waiting that arrived before the drop timer fired takes the
\* datagram (mark_heard) and does not return Disconnection, however late
\* the call is made.
C22_DropOnlyAfterSilence ==
    [][ (/\ last_call'.op = "receive"
         /\ IsSome(client.server_connection)
         /\ \E i \in DOMAIN socket :
               /\ socket[i].in_time
               /\ socket[i].packet_type \in {"Heartbeat", "Data"}) =>
          /\ result' # "Disconnection"
          /\ rx_log' # <<>> ]_vars

\* What the drain loop has left to do: the events queued, and the ping.
DrainMeasure(conn) ==
    Len(conn.event_manager.queued_outgoing_events)
      + (IF conn.ping_should_write THEN 1 ELSE 0)

\* The event at the head of the queue does not fit into an empty packet.
HeadOversize(conn) ==
    /\ conn.event_manager.queued_outgoing_events # <<>>
    /\ Head(conn.event_manager.queued_outgoing_events).size > MtuBudget

\* C23 as stated: with an event at the head of the queue that does not fit
\* into an empty packet, get_outgoing_packet returns None and leaves
\* queued_outgoing_events and sent_events as they were.
C23_OversizeReturnsNone ==
    [][ (last_call'.op = "get_outgoing_packet" /\ HeadOversize(Conn)) =>
          /\ last_call'.packet = None
          /\ EM'.queued_outgoing_events = EM.queued_outgoing_events
          /\ EM'.sent_events = EM.sent_events ]_vars

\* C23, amended: get_outgoing_packet returns None when there are no
\* outgoing events and no ping is due; a packet it returns carries the
\* ping or at least one event, and what is left to drain (events queued,
\* ping due) has become less, so the drain loop ends; with an event at the
\* head that does not fit into an empty packet it leaves
\* queued_outgoing_events and sent_events as they were and returns None
\* if no ping is due, and a packet with the ping alone if one is.
C23_DrainTerminates ==
    [][ last_call'.op = "get_outgoing_packet" =>
          /\ (~has_outgoing_events(EM) /\ ~Conn.ping_should_write)
                => (last_call'.packet = None /\ Conn' = Conn)
          /\ IsSome(last_call'.packet) =>
                /\ \/ Unwrap(last_call'.packet).ping
                   \/ Unwrap(last_call'.packet).events # <<>>
                /\ Unwrap(last_call'.packet).ping = Conn.ping_should_write
                /\ EM.queued_outgoing_events
                     = Unwrap(last_call'.packet).events
                         \o EM'.queued_outgoing_events
                /\ DrainMeasure(Conn') < DrainMeasure(Conn)
          /\ ~IsSome(last_call'.packet) =>
                /\ DrainMeasure(Conn') = DrainMeasure(Conn)
                /\ ~Conn.ping_should_write
                /\ EM' = EM
          /\ HeadOversize(Conn) =>
                /\ EM'.queued_outgoing_events = EM.queued_outgoing_events
                /\ EM'.sent_events = EM.sent_events
                /\ IF Conn.ping_should_write
                   THEN /\ IsSome(last_call'.packet)
                        /\ Unwrap(last_call'.packet).events = <<>>
                   ELSE last_call'.packet = None ]_vars

\* get_outgoing_packet returned None for an event too large for a packet
\* while the bucket of an earlier packet was being tracked.
C23_Witness ==
    /\ last_call.op = "get_outgoing_packet"
    /\ last_call.packet = None
    /\ HeadOversize(Conn)
    /\ EM.sent_events # <<>>

\* C24: server_connection is Some exactly when connection_state is
\* Connected, and in AwaitingConnectResponse the timestamp and the digest
\* are stored, the digest with exactly 32 bytes.
C24_HandshakeStateConsistent ==
    /\ IsSome(client.server_connection)
         <=> client.connection_state = "Connected"
    /\ client.connection_state = "AwaitingConnectResponse" =>
         /\ IsSome(client.pre_connection_timestamp)
         /\ IsSome(client.pre_connection_digest)
         /\ Len(Unwrap(client.pre_connection_digest)) = DigestLength

\* A challenge response with a digest field of 33 bytes has been accepted,
\* after a Disconnection.
C24_Witness ==
    /\ client.connection_state = "AwaitingConnectResponse"
    /\ \E i \in DOMAIN rx_log :
          /\ IsAcceptance(rx_log[i])
          /\ Len(rx_log[i].packet.digest) = DigestLength + 1
    /\ next_event_id > 1

\* The ids of the events a client holds in its outgoing queue or in a
\* bucket of sent_events, and of the events in the packets of a list.
IdsHeld(c) ==
    IF IsSome(c.server_connection)
    THEN LET em == Unwrap(c.server_connection).event_manager
         IN  EventIds(em.queued_outgoing_events)
               \cup UNION { EventIds(em.sent_events[s]) :
                              s \in DOMAIN em.sent_events }
    ELSE {}

IdsIn(packets) ==
    UNION { IF "events" \in DOMAIN packets[i]
            THEN EventIds(packets[i].events) ELSE {} : i \in DOMAIN packets }

\* C27: send_event on a client without a connection changes nothing of
\* the client; an event is held by the client or transmitted in a step
\* only if the client held it before or the step is a send_event of it on
\* a live connection, so an event sent without a connection is never
\* queued or transmitted, under a later connection either; and with the
\* Disconnection every event queued or tracked is gone.
C27_SendWithoutConnection ==
    /\ [][ (last_call'.op = "send_event" /\ ~IsSome(client.server_connection))
              => (client' = client /\ socket' = socket /\ outbox' = <<>>)
         ]_vars
    /\ [][ \A id \in IdsHeld(client') \cup IdsIn(outbox') :
              \/ id \in IdsHeld(client)
              \/ /\ last_call'.op = "send_event"
                 /\ IsSome(client.server_connection)
                 /\ Unwrap(last_call'.event).id = id ]_vars
    /\ [][ (ReceiveReturns /\ result' = "Disconnection")
              => (IdsHeld(client') = {} /\ outbox' = <<>>) ]_vars

\* An event was sent without a connection, a connection was made, and an
\* event sent on it has been transmitted by receive().
C27_Witness ==
    /\ next_event_id = 3
    /\ IdsIn(outbox) = {2}
    /\ IdsHeld(client) = {2}

\* How often the event of an id occurs in a list, and in the outgoing
\* queue and the buckets of an EventManager together.
Occurrences(list, id) ==
    Cardinality({ i \in DOMAIN list : list[i].id = id })

RECURSIVE SumOver(_, _, _)
SumOver(em, indices, id) ==
    IF indices = {} THEN 0
    ELSE LET s == CHOOSE x \in indices : TRUE
         IN  Occurrences(em.sent_events[s], id)
               + SumOver(em, indices \ {s}, id)

Places(em, id) ==
    Occurrences(em.queued_outgoing_events, id)
      + SumOver(em, DOMAIN em.sent_events, id)

\* The ids of the guaranteed events an EventManager holds.
GuaranteedHeld(em) ==
    { id \in 1 .. MaxEvents :
        \/ \E i \in DOMAIN em.queued_outgoing_events :
              /\ em.queued_outgoing_events[i].id = id
              /\ em.queued_outgoing_events[i].guaranteed
        \/ \E s \in DOMAIN em.sent_events :
              \E i \in DOMAIN em.sent_events[s] :
                 em.sent_events[s][i].id = id }

\* C25: no event is ever in two places of queued_outgoing_events and
\* sent_events; the guaranteed events held gain the event of a send_event,
\* lose the bucket of a packet notified delivered, and are otherwise the
\* same after every queue, get_outgoing_packet and notification: none is
\* lost before its packet is notified delivered.
C25_GuaranteedHeldOnce ==
    /\ [](\A id \in 1 .. MaxEvents : Places(EM, id) <= 1)
    /\ [][ GuaranteedHeld(EM') =
             CASE last_call'.op = "send_event" ->
                    GuaranteedHeld(EM)
                      \cup (IF Unwrap(last_call'.event).guaranteed
                            THEN {Unwrap(last_call'.event).id} ELSE {})
               [] last_call'.op = "notify_packet_delivered" ->
                    GuaranteedHeld(EM)
                      \ (IF IsSome(last_call'.bucket)
                         THEN EventIds(Unwrap(last_call'.bucket)) ELSE {})
               [] OTHER -> GuaranteedHeld(EM) ]_vars

\* The packet of one guaranteed event was notified dropped while the
\* packet of another was in flight: one is queued again, the other is in
\* its bucket.
C25_Witness ==
    /\ last_call.op = "notify_packet_dropped"
    /\ IsSome(last_call.bucket)
    /\ Cardinality(GuaranteedHeld(EM)) = 2
    /\ Len(EM.queued_outgoing_events) = 1
    /\ Cardinality(DOMAIN EM.sent_events) = 1

\* C26: a notification for a packet index without a bucket changes nothing
\* of the EventManager; in every state, for every index, a second
\* notify_packet_dropped after the first, a notify_packet_dropped after a
\* notify_packet_delivered and a notify_packet_delivered after a
\* notify_packet_dropped (or after another) leave what the first call
\* left.
C26_NotificationsIdempotent ==
    /\ [][ (/\ last_call'.op \in {"notify_packet_dropped",
                                   "notify_packet_delivered"}
            /\ last_call'.index \notin DOMAIN EM.sent_events)
              => EM' = EM ]_vars
    /\ [](\A s \in PacketIndices :
            LET dropped   == notify_packet_dropped(EM, s)
                delivered == notify_packet_delivered(EM, s)
            IN  /\ notify_packet_dropped(dropped, s) = dropped
                /\ notify_packet_delivered(dropped, s) = dropped
                /\ notify_packet_dropped(delivered, s) = delivered
                /\ notify_packet_delivered(delivered, s) = delivered)

\* notify_packet_dropped was called for an index that has no bucket while
\* the bucket of the other index and a queued event were there.
C26_Witness ==
    /\ last_call.op = "notify_packet_dropped"
    /\ last_call.bucket = None
    /\ EM.sent_events # <<>>
    /\ EM.queued_outgoing_events # <<>>

====
